---- MODULE Spec2Model ----
(***************************************************************************)
(* A model of the BGP routing-policy simulator: the AS graph with its      *)
(* propagation ranks, the announcement record, the per-AS policy state     *)
(* (local RIB, RIBs-in, RIBs-out, receive queue), the BGP and ROV policy   *)
(* extensions with the ROA validator, and the round-based three-phase      *)
(* propagation engine of src/simulation_engine/engine.rs.                  *)
(*                                                                         *)
(* One step of the model is one call of the engine's API (setup, a         *)
(* scenario's setup_engine, a direct Policy::seed_ann) or one AS's turn    *)
(* inside process_asns_for_relationship.  The engine is single-threaded,   *)
(* so the turns of a run happen in program order.                          *)
(***************************************************************************)
EXTENDS Integers, Sequences, FiniteSets, TLC

VARIABLES
    as_graph,         \* the ASGraph the engine borrows (immutable during a run)
    hash_order,       \* iteration order of the HashMaps (as_dict, policy_store, ribs_in)
    policy_store,     \* PolicyStore: ASN -> Policy
    route_validator,  \* the RouteValidator handed to Scenario::setup_engine
    phase,            \* position of run(): the phase of propagate_round in progress
    idx,              \* position of run(): index of the next AS in the phase's order
    round,            \* rounds completed since the last API call
    calls,            \* history: the API calls since the last setup
    turns,            \* history: the turns taken since the last API call
    events,           \* history: what the last step processed and enqueued
    probe             \* contract checks: the last call of a function, its arguments and result

vars == <<as_graph, hash_order, policy_store, route_validator,
          phase, idx, round, calls, turns, events, probe>>

-----------------------------------------------------------------------------
(* Bounds of the model *)

\* rounds of propagate_round explored after each API call
MaxRounds == 5

\* a run is followed for as long as no receive queue is longer than this
MaxQueue == 8

-----------------------------------------------------------------------------
(* Generic helpers *)

Range(s) == {s[i] : i \in DOMAIN s}

Contains(s, x) == \E i \in DOMAIN s : s[i] = x

Reverse(s) == [i \in 1..Len(s) |-> s[Len(s) + 1 - i]]

RECURSIVE Flatten(_)
Flatten(ss) == IF ss = <<>> THEN <<>> ELSE Head(ss) \o Flatten(Tail(ss))

SetMin(S) == CHOOSE x \in S : \A y \in S : x <= y
SetMax(S) == CHOOSE x \in S : \A y \in S : x >= y

RECURSIVE SortAsc(_)
SortAsc(S) == IF S = {} THEN <<>> ELSE <<SetMin(S)>> \o SortAsc(S \ {SetMin(S)})

\* Option<T>: None is the empty sequence, Some(x) the one-element sequence
None == <<>>
Some(x) == <<x>>

\* HashMap::insert on a map kept as a function
MapPut(m, k, v) == [x \in (DOMAIN m) \cup {k} |-> IF x = k THEN v ELSE m[x]]
MapRemove(m, k) == [x \in (DOMAIN m) \ {k} |-> m[x]]
EmptyMap == <<>>

\* iteration of a HashMap/HashSet of ASNs: some order of the keys
HashIter(S, order) == IF order = "asc" THEN SortAsc(S) ELSE Reverse(SortAsc(S))

-----------------------------------------------------------------------------
(* shared.rs *)

Providers == "Providers"
Peers     == "Peers"
Customers == "Customers"
Origin    == "Origin"
Unknown   == "Unknown"

invert(rel) ==
    CASE rel = Providers -> Customers
      [] rel = Customers -> Providers
      [] rel = Peers     -> Peers
      [] rel = Origin    -> Origin
      [] OTHER           -> Unknown

ATTACKER == 666
VICTIM == 777

\* ROAValidity, with its repr(u8) ordinal
ROAValidityOrd(v) ==
    CASE v = "Valid" -> 0
      [] v = "Unknown" -> 1
      [] v = "InvalidLength" -> 2
      [] v = "InvalidOrigin" -> 3
      [] v = "InvalidLengthAndOrigin" -> 4

-----------------------------------------------------------------------------
(* Prefixes (ipnetwork::IpNetwork, IPv4): the 32 address bits and the length *)

RECURSIVE Bits(_, _)
Bits(n, w) == IF w = 0 THEN <<>> ELSE Bits(n \div 2, w - 1) \o <<n % 2>>

IPv4(a, b, c, d, len) ==
    [ip |-> Bits(a, 8) \o Bits(b, 8) \o Bits(c, 8) \o Bits(d, 8), len |-> len]

RECURSIVE BitsValue(_)
BitsValue(bs) == IF bs = <<>> THEN 0
                 ELSE 2 * BitsValue(SubSeq(bs, 1, Len(bs) - 1)) + bs[Len(bs)]

\* RouteValidator::prefix_to_binary: the network bits only
prefix_to_binary(prefix) == SubSeq(prefix.ip, 1, prefix.len)

\* iteration of a HashMap keyed by prefix: some order of the keys
PrefixKey(p) == p.ip \o <<p.len>>
PrefixLess(p, q) ==
    \E i \in 1..Len(PrefixKey(p)) :
        /\ PrefixKey(p)[i] < PrefixKey(q)[i]
        /\ \A j \in 1..(i - 1) : PrefixKey(p)[j] = PrefixKey(q)[j]

RECURSIVE PrefixSort(_)
PrefixSort(S) ==
    IF S = {} THEN <<>>
    ELSE LET least == CHOOSE p \in S : \A q \in S : ~PrefixLess(q, p)
         IN <<least>> \o PrefixSort(S \ {least})

PrefixIter(S, order) == IF order = "asc" THEN PrefixSort(S) ELSE Reverse(PrefixSort(S))

-----------------------------------------------------------------------------
(* route_validator.rs *)

ROA_new(prefix, origin, max_length) ==
    [prefix |-> prefix, origin |-> origin, max_length |-> max_length]

\* a ROA that covers its own prefix only
covers_same_prefix_only(roa, prefix) ==
    /\ SubSeq(prefix.ip, 1, roa.prefix.len) = SubSeq(roa.prefix.ip, 1, roa.prefix.len)
    /\ prefix.len = roa.prefix.len

covers_prefix(roa, prefix) ==
    /\ SubSeq(prefix.ip, 1, roa.prefix.len) = SubSeq(roa.prefix.ip, 1, roa.prefix.len)
    /\ prefix.len >= roa.prefix.len

\* a validity that never looks at max_length
validity_by_origin_only(roa, prefix, origin) ==
    IF ~covers_prefix(roa, prefix) THEN "Unknown"
    ELSE IF roa.origin = origin THEN "Valid" ELSE "InvalidOrigin"

get_validity(roa, prefix, origin) ==
    IF ~covers_prefix(roa, prefix) THEN "Unknown"
    ELSE LET valid_length == prefix.len <= roa.max_length
             valid_origin == roa.origin = origin
         IN CASE valid_length /\ valid_origin   -> "Valid"
              [] ~valid_length /\ valid_origin  -> "InvalidLength"
              [] valid_length /\ ~valid_origin  -> "InvalidOrigin"
              [] OTHER                          -> "InvalidLengthAndOrigin"

get_outcome(roa, prefix, origin) ==
    <<get_validity(roa, prefix, origin),
      IF roa.origin # 0 THEN "Routed" ELSE "NonRouted">>

\* The trie: a map from a node's path (the bits leading to it) to its ROA set.
\* RouteValidator::new has the root only.
\* The cache is the list of its entries, the most recently used first.
RouteValidator_new == [root |-> (<<>> :> {}), cache |-> <<>>]

\* insert_roa_at_node: create the nodes along the path, insert at its end
insert_roa_at_node(nodes, roa) ==
    LET b == prefix_to_binary(roa.prefix)
        dom == (DOMAIN nodes) \cup {SubSeq(b, 1, i) : i \in 0..Len(b)}
    IN [n \in dom |->
          (IF n \in DOMAIN nodes THEN nodes[n] ELSE {})
          \cup (IF n = b THEN {roa} ELSE {})]

\* an add_roa that leaves the cache as it is
add_roa_keeping_cache(validator, roa) ==
    [root |-> insert_roa_at_node(validator.root, roa), cache |-> validator.cache]

\* add_roa: the ROA inserted, then self.cache.lock().unwrap().clear()
add_roa(validator, roa) ==
    [root |-> insert_roa_at_node(validator.root, roa), cache |-> <<>>]

\* a walk that reads only the node at the end of the target's bits
collect_at_last_node_only(validator, binary_prefix, index, target_prefix) ==
    IF binary_prefix \in DOMAIN validator.root
    THEN {roa \in validator.root[binary_prefix] : covers_prefix(roa, target_prefix)}
    ELSE {}

\* collect_relevant_roas_from_node: walk down the target's bits
RECURSIVE collect_relevant_roas_from_node(_, _, _, _)
collect_relevant_roas_from_node(validator, binary_prefix, index, target_prefix) ==
    LET node == SubSeq(binary_prefix, 1, index)
        here == {roa \in validator.root[node] : covers_prefix(roa, target_prefix)}
    IN IF index < Len(binary_prefix)
          /\ SubSeq(binary_prefix, 1, index + 1) \in DOMAIN validator.root
       THEN here \cup collect_relevant_roas_from_node(validator, binary_prefix,
                                                     index + 1, target_prefix)
       ELSE here

get_relevant_roas(validator, prefix) ==
    collect_relevant_roas_from_node(validator, prefix_to_binary(prefix), 0, prefix)

\* get_roa_outcome: the outcomes the call can return.  The relevant ROAs are
\* sorted by validity ordinal and the first is returned; ROAs of equal validity
\* come in the HashSet's order, so each of them can be the one returned.
get_roa_outcome(validator, prefix, origin) ==
    LET relevant_roas == get_relevant_roas(validator, prefix)
        outcomes == {get_outcome(roa, prefix, origin) : roa \in relevant_roas}
    IN IF relevant_roas = {} THEN {<<"Unknown", "Unknown">>}
       ELSE {o \in outcomes :
               \A o2 \in outcomes : ROAValidityOrd(o[1]) <= ROAValidityOrd(o2[1])}

-----------------------------------------------------------------------------
(* simulation_engine/announcement.rs: Announcement *)

Announcement_new_with_path(prefix, as_path, next_hop_asn, recv_relationship) ==
    [prefix |-> prefix,
     as_path |-> as_path,
     next_hop_asn |-> next_hop_asn,
     recv_relationship |-> recv_relationship,
     timestamp |-> "Victim",
     withdraw |-> FALSE,
     bgpsec_next_asn |-> None,
     bgpsec_as_path |-> None,
     only_to_customers |-> None,
     rovpp_blackhole |-> None,
     rost_ids |-> None]

origin(ann) ==
    IF ann.as_path = <<>> THEN ann.next_hop_asn ELSE ann.as_path[Len(ann.as_path)]

\* a copy that leaves the AS path as it was
copy_without_prepend(ann, next_hop_asn, recv_relationship) ==
    [ann EXCEPT !.next_hop_asn = next_hop_asn,
                !.recv_relationship = recv_relationship,
                !.bgpsec_next_asn = Some(next_hop_asn)]

copy_and_process(ann, next_hop_asn, recv_relationship) ==
    [ann EXCEPT
        !.as_path = IF ann.withdraw THEN @ ELSE <<next_hop_asn>> \o @,
        !.bgpsec_as_path = IF ann.withdraw \/ @ = None THEN @
                           ELSE Some(<<next_hop_asn>> \o @[1]),
        !.next_hop_asn = next_hop_asn,
        !.recv_relationship = recv_relationship,
        !.bgpsec_next_asn = Some(next_hop_asn)]

AnnInfo_new(ann, recv_relationship) ==
    [ann |-> ann, recv_relationship |-> recv_relationship]

-----------------------------------------------------------------------------
(* as_graphs/as_graph/as_graph.rs: the AS graph *)

ASBuilder(asn, peer_asns, provider_asns, customer_asns, tier_1) ==
    [asn |-> asn, peer_asns |-> peer_asns, provider_asns |-> provider_asns,
     customer_asns |-> customer_asns, tier_1 |-> tier_1, ixp |-> FALSE]

\* filter_map(|asn| as_dict.get(asn)): references to unknown ASNs are dropped
KnownOnly(asns, known) == SelectSeq(asns, LAMBDA a : a \in known)

\* ASGraph::build: one node per builder, in the builders' order (storage), then
\* the neighbor lists.  A node is identified by its ASN.
build(builders) ==
    LET storage == [i \in 1..Len(builders) |-> builders[i].asn]
        known == Range(storage)
        of(asn) == builders[CHOOSE i \in 1..Len(builders) : builders[i].asn = asn]
    IN [storage |-> storage,
        peers |-> [a \in known |-> KnownOnly(of(a).peer_asns, known)],
        providers |-> [a \in known |-> KnownOnly(of(a).provider_asns, known)],
        customers |-> [a \in known |-> KnownOnly(of(a).customer_asns, known)],
        tier_1 |-> [a \in known |-> of(a).tier_1],
        ixp |-> [a \in known |-> of(a).ixp],
        propagation_ranks |-> <<>>]

as_dict_keys(g) == Range(g.storage)

\* the while loop of assign_as_propagation_rank: one rank group per iteration
RECURSIVE rank_groups(_, _, _)
rank_groups(g, ranks, current_asns) ==
    IF current_asns = <<>> THEN <<>>
    ELSE LET ranked == ranks \cup Range(current_asns)
             next_asns == SelectSeq(g.storage, LAMBDA a :
                              /\ a \notin ranked
                              /\ \A p \in Range(g.providers[a]) : p \in ranked)
         IN <<current_asns>> \o rank_groups(g, ranked, next_asns)

\* ASGraph::assign_as_propagation_rank
assign_as_propagation_rank(g) ==
    LET first == SelectSeq(g.storage, LAMBDA a : g.providers[a] = <<>>)
        groups == rank_groups(g, {}, first)
    IN [g EXCEPT !.propagation_ranks = IF groups = <<>> THEN << <<>> >> ELSE groups]

\* AS::get_neighbors
get_neighbors(g, asn, relationship) ==
    CASE relationship = Customers -> g.customers[asn]
      [] relationship = Peers     -> g.peers[asn]
      [] relationship = Providers -> g.providers[asn]
      [] OTHER                    -> <<>>

-----------------------------------------------------------------------------
(* The graphs explored.  Each is built from a builder list; the Vec order of   *)
(* the builders and of their neighbor lists is the caller's, so each list is   *)
(* explored in both orders.                                                    *)

VecOrder(s, order) == IF order = "asc" THEN s ELSE Reverse(s)

OrderBuilders(builders, order) ==
    VecOrder([i \in 1..Len(builders) |->
                [builders[i] EXCEPT !.peer_asns = VecOrder(@, order),
                                    !.provider_asns = VecOrder(@, order),
                                    !.customer_asns = VecOrder(@, order)]], order)

\* tier-1 AS 1 with customers 2 and 3; AS 2 with customer 4
LinearBuilders ==
    << ASBuilder(1, <<>>, <<>>, <<2, 3>>, TRUE),
       ASBuilder(2, <<>>, <<1>>, <<4>>, FALSE),
       ASBuilder(3, <<>>, <<1>>, <<>>, FALSE),
       ASBuilder(4, <<>>, <<2>>, <<>>, FALSE) >>

\* tier-1 AS 1; 2 and 3 customers of 1 and peers; 4 customer of 2 and 3
DiamondBuilders ==
    << ASBuilder(1, <<>>, <<>>, <<2, 3>>, TRUE),
       ASBuilder(2, <<3>>, <<1>>, <<4>>, FALSE),
       ASBuilder(3, <<2>>, <<1>>, <<4>>, FALSE),
       ASBuilder(4, <<>>, <<2, 3>>, <<>>, FALSE) >>

\* tier-1 AS 1 with customer 2; attacker and victim customers of 2
HijackBuilders ==
    << ASBuilder(1, <<>>, <<>>, <<2>>, TRUE),
       ASBuilder(2, <<>>, <<1>>, <<ATTACKER, VICTIM>>, FALSE),
       ASBuilder(ATTACKER, <<>>, <<2>>, <<>>, FALSE),
       ASBuilder(VICTIM, <<>>, <<2>>, <<>>, FALSE) >>

BuilderLists == {LinearBuilders, DiamondBuilders, HijackBuilders}

MakeGraph(builders, order) ==
    assign_as_propagation_rank(build(OrderBuilders(builders, order)))

LinearGraph == MakeGraph(LinearBuilders, "asc")
DiamondGraph == MakeGraph(DiamondBuilders, "asc")
HijackGraph == MakeGraph(HijackBuilders, "asc")

\* the same graph, whatever the order of its Vecs
SameGraph(g, h) ==
    /\ as_dict_keys(g) = as_dict_keys(h)
    /\ \A a \in as_dict_keys(g) :
          /\ Range(g.peers[a]) = Range(h.peers[a])
          /\ Range(g.providers[a]) = Range(h.providers[a])
          /\ Range(g.customers[a]) = Range(h.customers[a])

\* the prefixes announced
P24 == IPv4(10, 0, 0, 0, 24)
P25 == IPv4(10, 0, 0, 0, 25)

-----------------------------------------------------------------------------
(* simulation_engine/policy: the policy extensions *)

\* PolicyExtension::validate_announcement, the trait's default
default_validate_announcement(ann, recv_relationship, asn) ==
    IF ann.as_path = <<>> /\ recv_relationship # Origin THEN FALSE
    ELSE IF Contains(ann.as_path, asn) THEN FALSE
    ELSE IF ann.as_path # <<>> /\ ann.as_path[1] # ann.next_hop_asn THEN FALSE
    ELSE TRUE

\* a validation without the loop check
validate_without_loop_check(ann, recv_relationship, asn) ==
    IF ann.withdraw THEN TRUE
    ELSE IF ann.as_path = <<>> /\ recv_relationship # Origin THEN FALSE
    ELSE TRUE

\* BGPPolicy::validate_announcement
BGPPolicy_validate_announcement(ann, recv_relationship, asn) ==
    IF Contains(ann.as_path, asn) THEN FALSE
    ELSE IF ann.withdraw THEN TRUE
    ELSE IF ann.as_path = <<>> /\ recv_relationship # Origin THEN FALSE
    ELSE TRUE

\* ROVPolicy::new: the policy owns a validator of its own, created empty
ROVPolicy_new == [name |-> "ROV", route_validator |-> RouteValidator_new]

BGPPolicy == [name |-> "BGP", route_validator |-> RouteValidator_new]

\* ROVPolicy::validate_announcement: the validator consulted is the policy's own
ROVPolicy_validate_announcement(extension, ann, recv_relationship, asn) ==
    IF ~default_validate_announcement(ann, recv_relationship, asn) THEN FALSE
    ELSE \A outcome \in get_roa_outcome(extension.route_validator, ann.prefix, origin(ann)) :
            outcome[1] \in {"Valid", "Unknown"}

\* create_policy_extension, for the settings explored
create_policy_extension(settings) ==
    CASE settings = "BaseDefense" -> BGPPolicy
      [] settings = "Rov"         -> ROVPolicy_new
      [] OTHER                    -> BGPPolicy

\* dynamic dispatch of extension.validate_announcement
validate_announcement(extension, ann, recv_relationship, asn) ==
    IF extension.name = "ROV"
    THEN ROVPolicy_validate_announcement(extension, ann, recv_relationship, asn)
    ELSE BGPPolicy_validate_announcement(ann, recv_relationship, asn)

\* an export rule that lets every route go to customers only
propagate_to_customers_only(recv_relationship, send_relationship) ==
    send_relationship = Customers

\* PolicyExtension::should_propagate, the trait's default (used by ROV)
default_should_propagate(recv_relationship, send_relationship) ==
    CASE recv_relationship = Origin -> TRUE
      [] recv_relationship = Customers -> TRUE
      [] recv_relationship = Peers /\ send_relationship = Customers -> TRUE
      [] recv_relationship = Providers /\ send_relationship = Customers -> TRUE
      [] OTHER -> FALSE

\* an export rule that lets every route go everywhere
propagate_to_all(recv_relationship, send_relationship) == TRUE

\* BGPPolicy::should_propagate
BGPPolicy_should_propagate(recv_relationship, send_relationship) ==
    CASE recv_relationship = Providers -> send_relationship = Customers
      [] recv_relationship = Peers -> send_relationship = Customers
      [] recv_relationship = Customers -> TRUE
      [] recv_relationship = Origin -> TRUE
      [] OTHER -> FALSE

\* dynamic dispatch of extension.should_propagate
extension_should_propagate(extension, ann, recv_relationship, send_relationship) ==
    IF extension.name = "BGP"
    THEN BGPPolicy_should_propagate(recv_relationship, send_relationship)
    ELSE default_should_propagate(recv_relationship, send_relationship)

get_gao_rexford_preference(rel) ==
    CASE rel = Customers -> 3
      [] rel = Peers -> 2
      [] rel = Providers -> 1
      [] OTHER -> 0

\* usize/u32 cmp
Cmp(a, b) == IF a < b THEN "Less" ELSE IF a > b THEN "Greater" ELSE "Equal"

\* a comparison without the tie-break on the next hop
compare_without_tiebreak(ann1, ann2, rel1, rel2) ==
    LET pref1 == get_gao_rexford_preference(rel1)
        pref2 == get_gao_rexford_preference(rel2)
    IN IF Cmp(pref2, pref1) # "Equal" THEN Cmp(pref2, pref1)
       ELSE Cmp(Len(ann1.as_path), Len(ann2.as_path))

\* PolicyExtension::compare_announcements, the trait's default (BGP and ROV)
compare_announcements(ann1, ann2, rel1, rel2) ==
    LET pref1 == get_gao_rexford_preference(rel1)
        pref2 == get_gao_rexford_preference(rel2)
    IN IF Cmp(pref2, pref1) # "Equal" THEN Cmp(pref2, pref1)
       ELSE IF Cmp(Len(ann1.as_path), Len(ann2.as_path)) # "Equal"
            THEN Cmp(Len(ann1.as_path), Len(ann2.as_path))
            ELSE Cmp(ann1.next_hop_asn, ann2.next_hop_asn)

-----------------------------------------------------------------------------
(* simulation_engine/announcement.rs: Policy *)

Policy_with_settings(asn, settings) ==
    [asn |-> asn,
     settings |-> settings,
     local_rib |-> EmptyMap,
     recv_q |-> <<>>,
     ribs_in |-> EmptyMap,
     ribs_out |-> EmptyMap]

Policy_new(asn) == Policy_with_settings(asn, "BaseDefense")

receive_ann(policy, ann, recv_relationship) ==
    [policy EXCEPT !.recv_q = Append(@, AnnInfo_new(ann, recv_relationship))]

valid_ann(policy, ann, recv_relationship, asn) ==
    validate_announcement(create_policy_extension(policy.settings),
                          ann, recv_relationship, asn)

get_relationship(g, asn, neighbor_asn) ==
    IF Contains(g.customers[asn], neighbor_asn) THEN Customers
    ELSE IF Contains(g.peers[asn], neighbor_asn) THEN Peers
    ELSE IF Contains(g.providers[asn], neighbor_asn) THEN Providers
    ELSE Unknown

\* candidates.sort_by(compare).into_iter().next(): the sort is stable, so the
\* first of the sorted candidates is the earliest candidate that none beats
SortedFirst(candidates, Less(_, _)) ==
    LET firsts == {i \in 1..Len(candidates) :
                      \A j \in 1..Len(candidates) : ~Less(candidates[j], candidates[i])}
    IN IF firsts = {} THEN candidates[1] ELSE candidates[SetMin(firsts)]

\* a choice that takes the first candidate the iteration meets
first_candidate(policy, prefix, g, order) ==
    LET neighbors == SelectSeq(HashIter(DOMAIN policy.ribs_in, order), LAMBDA n :
                        /\ prefix \in DOMAIN policy.ribs_in[n]
                        /\ ~policy.ribs_in[n][prefix].withdraw)
    IN IF neighbors = <<>> THEN None ELSE Some(policy.ribs_in[neighbors[1]][prefix])

\* Policy::get_best_ann_for_prefix; ribs_in.values() comes in the map's order
get_best_ann_for_prefix(policy, prefix, g, order) ==
    LET neighbors == SelectSeq(HashIter(DOMAIN policy.ribs_in, order), LAMBDA n :
                        /\ prefix \in DOMAIN policy.ribs_in[n]
                        /\ ~policy.ribs_in[n][prefix].withdraw)
        candidates == [i \in 1..Len(neighbors) |-> policy.ribs_in[neighbors[i]][prefix]]
        Better(a, b) ==
            compare_announcements(a, b,
                get_relationship(g, policy.asn, a.next_hop_asn),
                get_relationship(g, policy.asn, b.next_hop_asn)) = "Less"
    IN IF candidates = <<>> THEN None
       ELSE Some(SortedFirst(candidates, Better))

\* Policy::should_propagate
should_propagate(ann, recv_relationship) ==
    \/ ~(ann.only_to_customers = Some(TRUE))
    \/ recv_relationship = Customers
    \/ recv_relationship = Origin

\* an export decision that lets every route go to every neighbor
propagate_to_any_rel(policy, ann, rel) == TRUE

\* Policy::should_propagate_to_rel: the relationship read is the announcement's
should_propagate_to_rel(policy, ann, rel) ==
    extension_should_propagate(create_policy_extension(policy.settings),
                               ann, ann.recv_relationship, rel)

\* a seeding that hands the announcement to the AS's own receive queue
seed_through_recv_q(policy, ann0) == receive_ann(policy, ann0, Origin)

\* Policy::seed_ann
seed_ann(policy, ann0) ==
    LET ann == [ann0 EXCEPT
                  !.as_path = IF @ = <<>> /\ ~ann0.withdraw THEN <<policy.asn>> ELSE @,
                  !.next_hop_asn = policy.asn,
                  !.recv_relationship = Origin]
    IN IF ann.withdraw
       THEN [policy EXCEPT !.local_rib = MapRemove(@, ann.prefix)]
       ELSE [policy EXCEPT !.local_rib = MapPut(@, ann.prefix, ann)]

-----------------------------------------------------------------------------
(* simulation_engine/engine.rs: SimulationEngine *)

\* SimulationEngine::new: a default policy for every AS of the graph
SimulationEngine_new(g) == [a \in as_dict_keys(g) |-> Policy_new(a)]

\* the driver's adoption loop: policy.settings and policy.extension replaced
Adopt(store, settings, adopting_asns) ==
    [a \in DOMAIN store |->
        IF a \in adopting_asns THEN [store[a] EXCEPT !.settings = settings] ELSE store[a]]

\* "remove our ASN from the front if present"
RemoveOwn(ann, asn) ==
    IF ann.as_path # <<>> /\ ann.as_path[1] = asn
    THEN [ann EXCEPT !.as_path = Tail(@)]
    ELSE ann

\* the announcements one AS produces for the neighbors of the given
\* relationships, in the order they are pushed to anns_to_propagate
SendsOf(g, asn, ann, rels) ==
    Flatten([r \in 1..Len(rels) |->
        LET neighbors == get_neighbors(g, asn, rels[r])
        IN [i \in 1..Len(neighbors) |->
              [from |-> asn,
               to |-> neighbors[i],
               rel |-> rels[r],
               recv_rel |-> invert(rels[r]),
               ann |-> copy_and_process(RemoveOwn(ann, asn), asn, invert(rels[r]))]]])

\* a delivery that hands what has no receiver back to its sender
RECURSIVE deliver_or_return(_, _)
deliver_or_return(store, sends) ==
    IF sends = <<>> THEN store
    ELSE LET s == Head(sends)
             to == IF s.to \in DOMAIN store THEN s.to ELSE s.from
         IN deliver_or_return([store EXCEPT ![to] = receive_ann(@, s.ann, s.recv_rel)],
                              Tail(sends))

\* the loop over anns_to_propagate: receive_ann at every neighbor that has a policy
RECURSIVE Deliver(_, _)
Deliver(store, sends) ==
    IF sends = <<>> THEN store
    ELSE LET s == Head(sends)
         IN Deliver(IF s.to \in DOMAIN store
                    THEN [store EXCEPT ![s.to] = receive_ann(@, s.ann, s.recv_rel)]
                    ELSE store,
                    Tail(sends))

\* the "Update ribs_out" statement, for every announcement sent
RECURSIVE UpdateRibsOut(_, _)
UpdateRibsOut(ribs_out, sends) ==
    IF sends = <<>> THEN ribs_out
    ELSE LET s == Head(sends)
             old == IF s.to \in DOMAIN ribs_out THEN ribs_out[s.to] ELSE EmptyMap
         IN UpdateRibsOut(MapPut(ribs_out, s.to, MapPut(old, s.ann.prefix, s.ann)),
                          Tail(sends))

AllRels == <<Customers, Peers, Providers>>

\* the first loop of setup: every policy cleared
ClearAll(store) ==
    [a \in DOMAIN store |->
        [store[a] EXCEPT !.local_rib = EmptyMap, !.recv_q = <<>>,
                         !.ribs_in = EmptyMap, !.ribs_out = EmptyMap]]

\* the second loop of setup: seed_ann at every AS that has a policy
RECURSIVE SeedAll(_, _)
SeedAll(store, initial_announcements) ==
    IF initial_announcements = <<>> THEN store
    ELSE LET asn == Head(initial_announcements)[1]
             ann == Head(initial_announcements)[2]
         IN SeedAll(IF asn \in DOMAIN store
                    THEN [store EXCEPT ![asn] = seed_ann(@, ann)]
                    ELSE store,
                    Tail(initial_announcements))

\* propagate_seeded_announcements, for one AS: what it sends for its local RIB
SeededEvents(g, policy, order) ==
    LET prefixes == PrefixIter(DOMAIN policy.local_rib, order.local_rib)
    IN [i \in 1..Len(prefixes) |->
          [asn |-> policy.asn,
           ann |-> policy.local_rib[prefixes[i]],
           recv_relationship |-> Origin,
           is_valid |-> TRUE,
           best |-> Some(policy.local_rib[prefixes[i]]),
           sent |-> SendsOf(g, policy.asn, policy.local_rib[prefixes[i]], AllRels)]]

\* all that an event list sent
SentBy(evs) == Flatten([i \in 1..Len(evs) |-> evs[i].sent])

\* propagate_seeded_announcements: the ASes with a non-empty local RIB, in the
\* policy store's order; the result is the store and the record of what was sent
RECURSIVE propagate_seeded(_, _, _, _, _)
propagate_seeded(store, g, asns_with_anns, order, evs) ==
    IF asns_with_anns = <<>> THEN [store |-> store, events |-> evs]
    ELSE LET new == SeededEvents(g, store[Head(asns_with_anns)], order)
         IN propagate_seeded(Deliver(store, SentBy(new)), g,
                             Tail(asns_with_anns), order, evs \o new)

propagate_seeded_announcements(store, g, order) ==
    propagate_seeded(store, g,
        SelectSeq(HashIter(DOMAIN store, order.policy_store),
                  LAMBDA a : DOMAIN store[a].local_rib # {} /\ a \in as_dict_keys(g)),
        order, <<>>)

\* SimulationEngine::setup
setup(store, g, initial_announcements, order) ==
    propagate_seeded_announcements(SeedAll(ClearAll(store), initial_announcements),
                                   g, order)

\* a RIBs-in that counts withdrawals: a withdrawal that meets the same
\* neighbor's withdrawal for the prefix takes the entry away
withdraw_twice_removes(policy, ann) ==
    LET old_in == IF ann.next_hop_asn \in DOMAIN policy.ribs_in
                  THEN policy.ribs_in[ann.next_hop_asn] ELSE EmptyMap
    IN IF ann.withdraw /\ ann.prefix \in DOMAIN old_in /\ old_in[ann.prefix].withdraw
       THEN [policy EXCEPT !.ribs_in = MapPut(@, ann.next_hop_asn, MapRemove(old_in, ann.prefix))]
       ELSE [policy EXCEPT
               !.ribs_in = MapPut(@, ann.next_hop_asn, MapPut(old_in, ann.prefix, ann))]

\* policy.ribs_in.entry(next_hop_asn).or_insert_with(HashMap::new).insert(prefix, ann)
insert_ribs_in(policy, ann) ==
    LET old_in == IF ann.next_hop_asn \in DOMAIN policy.ribs_in
                  THEN policy.ribs_in[ann.next_hop_asn] ELSE EmptyMap
    IN [policy EXCEPT
          !.ribs_in = MapPut(@, ann.next_hop_asn, MapPut(old_in, ann.prefix, ann))]

\* the body of "for ann_info in anns_to_process" for one announcement
process_ann_info(store, g, asn, ann_info, order) ==
    LET policy == store[asn]
        ann == ann_info.ann
        is_valid == valid_ann(policy, ann, ann_info.recv_relationship, asn)
        with_in == insert_ribs_in(policy, ann)
        best_ann == get_best_ann_for_prefix(with_in, ann.prefix, g, order.ribs_in)
        best == IF best_ann = None THEN None
                ELSE IF best_ann[1].as_path = <<>> \/ best_ann[1].as_path[1] # asn
                     THEN Some([best_ann[1] EXCEPT !.as_path = <<asn>> \o @])
                     ELSE best_ann
        rels == IF best # None /\ should_propagate(best[1], ann_info.recv_relationship)
                THEN SelectSeq(AllRels, LAMBDA rel : should_propagate_to_rel(with_in, best[1], rel))
                ELSE <<>>
        sent == IF best = None THEN <<>> ELSE SendsOf(g, asn, best[1], rels)
        after == IF best = None THEN with_in
                 ELSE [with_in EXCEPT !.local_rib = MapPut(@, ann.prefix, best[1]),
                                      !.ribs_out = UpdateRibsOut(@, sent)]
        event == [asn |-> asn, ann |-> ann,
                  recv_relationship |-> ann_info.recv_relationship,
                  is_valid |-> is_valid,
                  best |-> IF is_valid THEN best ELSE None,
                  sent |-> IF is_valid THEN sent ELSE <<>>]
    IN IF is_valid
       THEN [store |-> Deliver([store EXCEPT ![asn] = after], sent), event |-> event]
       ELSE [store |-> store, event |-> event]

\* the loop "for ann_info in anns_to_process"
RECURSIVE process_anns(_, _, _, _, _, _)
process_anns(store, g, asn, anns_to_process, order, evs) ==
    IF anns_to_process = <<>> THEN [store |-> store, events |-> evs]
    ELSE LET r == process_ann_info(store, g, asn, Head(anns_to_process), order)
         IN process_anns(r.store, g, asn, Tail(anns_to_process), order,
                         Append(evs, r.event))

\* a turn that takes the announcements from the back of the queue
process_latest_first(store, g, asn, order) ==
    IF asn \in DOMAIN store
    THEN process_anns([store EXCEPT ![asn].recv_q = <<>>], g, asn,
                      Reverse(store[asn].recv_q), order, <<>>)
    ELSE [store |-> store, events |-> <<>>]

\* one iteration of "for &asn in asns" of process_asns_for_relationship: the
\* queue is drained, then its announcements are processed.  The relationship
\* argument of the function is not read by its body.
process_asn(store, g, asn, order) ==
    IF asn \in DOMAIN store
    THEN process_anns([store EXCEPT ![asn].recv_q = <<>>], g, asn,
                      store[asn].recv_q, order, <<>>)
    ELSE [store |-> store, events |-> <<>>]

\* a traversal that takes the ranks forward in every phase
PhaseOrderForward(g, ph, order) ==
    IF ph = "peers" THEN HashIter(as_dict_keys(g), order.as_dict)
    ELSE Flatten(g.propagation_ranks)

\* the ASes of one phase, in the order of their turns
PhaseOrder(g, ph, order) ==
    CASE ph = "providers" -> Flatten(Reverse(g.propagation_ranks))
      [] ph = "peers"     -> HashIter(as_dict_keys(g), order.as_dict)
      [] ph = "customers" -> Flatten(g.propagation_ranks)

\* propagate_round: the phase after this one
NextPhase(ph) ==
    CASE ph = "providers" -> "peers"
      [] ph = "peers"     -> "customers"
      [] ph = "customers" -> "providers"

\* process_asns_for_relationship: the turns of the given ASes, one after another
RECURSIVE process_asns_for_relationship(_, _, _, _)
process_asns_for_relationship(store, g, asns, order) ==
    IF asns = <<>> THEN store
    ELSE process_asns_for_relationship(process_asn(store, g, Head(asns), order).store,
                                       g, Tail(asns), order)

\* propagate_round: the three phases
propagate_round(store, g, order) ==
    LET to_providers == process_asns_for_relationship(store, g,
                            PhaseOrder(g, "providers", order), order)
        to_peers == process_asns_for_relationship(to_providers, g,
                            PhaseOrder(g, "peers", order), order)
    IN process_asns_for_relationship(to_peers, g,
                            PhaseOrder(g, "customers", order), order)

\* SimulationEngine::run
RECURSIVE run(_, _, _, _)
run(store, g, order, rounds) ==
    IF rounds = 0 THEN store
    ELSE run(propagate_round(store, g, order), g, order, rounds - 1)

\* prefix.to_string(): the four octets of the address and the length
prefix_to_string(prefix) ==
    <<BitsValue(SubSeq(prefix.ip, 1, 8)), BitsValue(SubSeq(prefix.ip, 9, 16)),
      BitsValue(SubSeq(prefix.ip, 17, 24)), BitsValue(SubSeq(prefix.ip, 25, 32)),
      prefix.len>>

\* get_local_rib_snapshot: ASN -> prefix string -> as_path
get_local_rib_snapshot(store) ==
    [a \in DOMAIN store |->
        LET rib == store[a].local_rib
        IN [str \in {prefix_to_string(p) : p \in DOMAIN rib} |->
              rib[CHOOSE p \in DOMAIN rib : prefix_to_string(p) = str].as_path]]

-----------------------------------------------------------------------------
(* simulation_framework/scenarios/subprefix_hijack.rs *)

SubprefixHijack_new(attacker_asns, legitimate_origin_asns) ==
    [attacker_asns |-> attacker_asns,
     legitimate_origin_asns |-> legitimate_origin_asns,
     legitimate_prefix |-> IPv4(1, 2, 3, 0, 24),
     hijacked_prefix |-> IPv4(1, 2, 3, 0, 25)]

\* get_seed_asn_ann_dict: the attackers' entries are inserted last
get_seed_asn_ann_dict(scenario) ==
    [a \in scenario.legitimate_origin_asns \cup scenario.attacker_asns |->
        IF a \in scenario.attacker_asns
        THEN <<Announcement_new_with_path(scenario.hijacked_prefix, <<>>, a, Origin)>>
        ELSE <<Announcement_new_with_path(scenario.legitimate_prefix, <<>>, a, Origin)>>]

\* get_roas: one ROA per legitimate origin, max length 24
get_roas(scenario, order) ==
    LET asns == HashIter(scenario.legitimate_origin_asns, order)
    IN [i \in 1..Len(asns) |-> ROA_new(scenario.legitimate_prefix, asns[i], 24)]

RECURSIVE add_roas(_, _)
add_roas(validator, roas) ==
    IF roas = <<>> THEN validator
    ELSE add_roas(add_roa(validator, Head(roas)), Tail(roas))

\* setup_engine: the ROAs go into the validator passed in, the seeds to setup
setup_engine(scenario, store, g, order) ==
    LET seed_dict == get_seed_asn_ann_dict(scenario)
        asns == HashIter(DOMAIN seed_dict, order.policy_store)
        initial_anns == Flatten([i \in 1..Len(asns) |->
                            [j \in 1..Len(seed_dict[asns[i]]) |->
                                <<asns[i], seed_dict[asns[i]][j]>>]])
        r == setup(store, g, initial_anns, order)
    IN [route_validator |-> add_roas(RouteValidator_new,
                                     get_roas(scenario, order.policy_store)),
        initial_anns |-> initial_anns,
        store |-> r.store,
        events |-> r.events]

\* is_successful: the attackers' route in more than half of the local RIBs
is_successful(scenario, store, g) ==
    LET attacker_reach == Cardinality({a \in DOMAIN store :
            /\ scenario.hijacked_prefix \in DOMAIN store[a].local_rib
            /\ origin(store[a].local_rib[scenario.hijacked_prefix])
                  \in scenario.attacker_asns})
        total_ases == Cardinality(as_dict_keys(g))
    IN 2 * attacker_reach > total_ases

-----------------------------------------------------------------------------
(* The driver: what is explored *)

Orders == {"asc", "desc"}

\* every HashMap iterating in the one order
UniformOrder(o) == [as_dict |-> o, policy_store |-> o, ribs_in |-> o, local_rib |-> o]

\* the sets of ASes that adopt ROV before the run
Adoptions(builders) ==
    IF builders = HijackBuilders
    THEN {{}, {2}, {builders[i].asn : i \in 1..Len(builders)}}
    ELSE {{}}

\* the scenario of the driver: attacker 666 and victim 777 on 10.0.0.0
TheScenario ==
    [SubprefixHijack_new({ATTACKER}, {VICTIM}) EXCEPT
        !.legitimate_prefix = P24, !.hijacked_prefix = P25]

Seed(asn, prefix, as_path) ==
    <<asn, Announcement_new_with_path(prefix, as_path, asn, Origin)>>

Withdrawal(asn, prefix) ==
    [Announcement_new_with_path(prefix, <<>>, asn, Origin) EXCEPT !.withdraw = TRUE]

\* the seed lists handed to setup: one origin, one seed with a path already
\* set, or two origins
SeedLists(g) ==
    LET asns == as_dict_keys(g)
    IN {<<Seed(a, p, <<>>)>> : a \in asns, p \in {P24, P25}}
       \cup {<<Seed(a, P24, path)>> : a \in asns, path \in {<<1, 3, 4>>, <<3, 4>>}}
       \cup {<<Seed(ab[1], P24, <<>>), Seed(ab[2], P24, <<>>)>> :
                ab \in {x \in asns \X asns : x[1] < x[2]}}
       \cup {<<Seed(a, P24, <<>>), Seed(b, P25, <<>>)>> : a \in asns, b \in asns}
       \cup {<< <<a, Withdrawal(a, P24)>> >> : a \in asns}

\* no function has been called on its own
NoProbe == [op |-> "none"]

\* a run is over, or none has started: the driver may call the API
Idle == calls = <<>> \/ round = MaxRounds

\* the driver has not used the scenario
NoScenario == route_validator = RouteValidator_new

\* the first call of a run was setup with one origin of 10.0.0.0/24
SingleOrigin ==
    /\ Len(calls) = 1
    /\ Len(calls[1].initial_announcements) = 1
    /\ calls[1].initial_announcements[1][2].prefix = P24
    /\ calls[1].initial_announcements[1][2].as_path = <<>>
    /\ ~calls[1].initial_announcements[1][2].withdraw

Restart ==
    /\ phase' = "providers"
    /\ idx' = 1
    /\ round' = 0
    /\ turns' = <<>>

Init ==
    \E builders \in BuilderLists, o \in Orders :
      \E adopting \in Adoptions(builders) :
        /\ as_graph = MakeGraph(builders, o)
        /\ hash_order = UniformOrder(o)
        /\ policy_store = Adopt(SimulationEngine_new(as_graph), "Rov", adopting)
        /\ route_validator = RouteValidator_new
        /\ phase = "providers"
        /\ idx = 1
        /\ round = 0
        /\ calls = <<>>
        /\ turns = <<>>
        /\ events = <<>>
        /\ probe = NoProbe

\* engine.setup(initial_announcements)
Setup ==
    /\ Idle
    /\ NoScenario
    /\ \E initial_announcements \in SeedLists(as_graph) :
         LET r == setup(policy_store, as_graph, initial_announcements, hash_order)
         IN /\ policy_store' = r.store
            /\ events' = r.events
            /\ calls' = <<[op |-> "setup", initial_announcements |-> initial_announcements]>>
    /\ Restart
    /\ UNCHANGED <<as_graph, hash_order, route_validator, probe>>

\* scenario.setup_engine(&mut engine, &mut route_validator)
SetupEngine ==
    /\ Idle
    /\ LET r == setup_engine(TheScenario, policy_store, as_graph, hash_order)
       IN /\ policy_store' = r.store
          /\ route_validator' = r.route_validator
          /\ events' = r.events
          /\ calls' = <<[op |-> "setup_engine", initial_announcements |-> r.initial_anns]>>
    /\ Restart
    /\ UNCHANGED <<as_graph, hash_order, probe>>

\* policy.seed_ann(withdrawal) on the engine's policy store, between two runs
SeedAnn ==
    /\ round = MaxRounds
    /\ SingleOrigin
    /\ \E asn \in DOMAIN policy_store :
         LET ann == Withdrawal(asn, P24)
         IN /\ policy_store' = [policy_store EXCEPT ![asn] = seed_ann(@, ann)]
            /\ calls' = Append(calls, [op |-> "seed_ann", asn |-> asn, ann |-> ann])
    /\ events' = <<>>
    /\ Restart
    /\ UNCHANGED <<as_graph, hash_order, route_validator, probe>>

\* one AS's turn in the phase ph of propagate_round
TurnStep(ph) ==
    /\ calls # <<>>
    /\ round < MaxRounds
    /\ \A a \in DOMAIN policy_store : Len(policy_store[a].recv_q) <= MaxQueue
    /\ phase = ph
    /\ LET asns == PhaseOrder(as_graph, ph, hash_order)
           asn == asns[idx]
           r == process_asn(policy_store, as_graph, asn, hash_order)
       IN /\ policy_store' = r.store
          /\ events' = r.events
          /\ turns' = Append(turns, [round |-> round + 1, phase |-> ph, asn |-> asn])
          /\ IF idx < Len(asns)
             THEN /\ idx' = idx + 1
                  /\ phase' = ph
                  /\ round' = round
             ELSE /\ idx' = 1
                  /\ phase' = NextPhase(ph)
                  /\ round' = IF ph = "customers" THEN round + 1 ELSE round
    /\ UNCHANGED <<as_graph, hash_order, route_validator, calls>>

Turn(ph) == TurnStep(ph) /\ UNCHANGED probe

TurnProviders == Turn("providers")
TurnPeers == Turn("peers")
TurnCustomers == Turn("customers")

Next ==
    \/ Setup
    \/ SetupEngine
    \/ SeedAnn
    \/ TurnProviders
    \/ TurnPeers
    \/ TurnCustomers

Spec == Init /\ [][Next]_vars

-----------------------------------------------------------------------------
(* Properties *)

\* the rank group of an AS
RankOf(g, asn) ==
    CHOOSE r \in 1..Len(g.propagation_ranks) : Contains(g.propagation_ranks[r], asn)

PhaseIndex(ph) ==
    CASE ph = "providers" -> 1
      [] ph = "peers"     -> 2
      [] ph = "customers" -> 3

\* turn t comes no later than turn u in the schedule of rounds and phases
SlotLeq(t, u) ==
    \/ t.round < u.round
    \/ t.round = u.round /\ PhaseIndex(t.phase) <= PhaseIndex(u.phase)

SameSlot(t, u) == t.round = u.round /\ t.phase = u.phase

\* C1: in every round each AS gets exactly one turn in each of the three
\* phases; the to-providers turns precede the to-peers turns, which precede
\* the to-customers turns; within to-providers an AS's turn comes after the
\* turns of all its customers (highest rank first), within to-customers after
\* the turns of all its providers (rank 0 first); no turn of round k+1 comes
\* before round k has ended.  Stated of the turn just taken against all the
\* turns before it: the turns before it were each the last turn of an
\* earlier state.
C1_TurnSchedule ==
    turns # <<>> =>
      LET n == Len(turns)
          t == turns[n]
          asns == as_dict_keys(as_graph)
          before == {turns[k].asn : k \in {k \in 1..(n - 1) : SameSlot(turns[k], t)}}
      IN /\ turns[1].round = 1 /\ turns[1].phase = "providers"
         /\ t.asn \in asns \ before
         /\ \A k \in 1..(n - 1) : SlotLeq(turns[k], t)
         /\ n > 1 /\ ~SameSlot(turns[n - 1], t) =>
               /\ {turns[k].asn : k \in {k \in 1..(n - 1) :
                                    SameSlot(turns[k], turns[n - 1])}} = asns
               /\ t.phase = NextPhase(turns[n - 1].phase)
               /\ t.round = IF t.phase = "providers" THEN turns[n - 1].round + 1
                            ELSE turns[n - 1].round
         /\ idx = 1 => before \cup {t.asn} = asns
         /\ idx = 1 /\ phase = "providers" => round = t.round
         /\ t.phase = "providers" =>
               /\ Range(as_graph.customers[t.asn]) \subseteq before
               /\ \A a \in before : RankOf(as_graph, a) >= RankOf(as_graph, t.asn)
         /\ t.phase = "customers" =>
               /\ Range(as_graph.providers[t.asn]) \subseteq before
               /\ \A a \in before : RankOf(as_graph, a) <= RankOf(as_graph, t.asn)

\* two rounds of the diamond are over, and AS 4 had its to-providers turn of
\* the second round before its provider AS 2 had
C1_Witness ==
    /\ SameGraph(as_graph, DiamondGraph)
    /\ round = 2
    /\ \E i \in 1..Len(turns), j \in 1..Len(turns) :
          /\ i < j
          /\ turns[i] = [round |-> 2, phase |-> "providers", asn |-> 4]
          /\ turns[j] = [round |-> 2, phase |-> "providers", asn |-> 2]

\* the relationship a phase is named after
PhaseRel(ph) ==
    CASE ph = "providers" -> Providers
      [] ph = "peers"     -> Peers
      [] ph = "customers" -> Customers

\* C2: delivery is phase-specific: what a turn of the to-providers phase places
\* into a recv_q was sent to a provider (and arrives with recv_relationship
\* Customers), what a turn of the to-peers phase places was sent over a peer
\* edge, what a turn of the to-customers phase places was sent to a customer.
C2_PhaseSpecificDelivery ==
    turns # <<>> =>
      \A i \in 1..Len(events) : \A k \in 1..Len(events[i].sent) :
         LET s == events[i].sent[k]
         IN s.to \in DOMAIN policy_store =>
              /\ s.rel = PhaseRel(turns[Len(turns)].phase)
              /\ s.recv_rel = invert(PhaseRel(turns[Len(turns)].phase))

AllBGP == \A a \in DOMAIN policy_store : policy_store[a].settings = "BaseDefense"

\* C3: the Gao-Rexford export rule: with the default BGP policy at every AS,
\* whatever the seeds and the number of rounds, a route that an AS holds with
\* recv_relationship Peers or Providers is enqueued to that AS's customers
\* only, never to a peer or a provider.
C3_GaoRexfordExport ==
    AllBGP =>
      \A i \in 1..Len(events) :
         LET e == events[i]
         IN e.best # None /\ e.best[1].recv_relationship \in {Peers, Providers} =>
               \A k \in 1..Len(e.sent) : e.sent[k].rel = Customers

\* an AS of a BGP-only graph took a route from its provider as its best and
\* enqueued it to a customer
C3_Witness ==
    /\ AllBGP
    /\ \E i \in 1..Len(events) :
          /\ events[i].best # None
          /\ events[i].best[1].recv_relationship = Providers
          /\ events[i].sent # <<>>
          /\ \E k \in 1..Len(events[i].sent) :
                events[i].sent[k].to \in Range(as_graph.customers[events[i].asn])

\* C4: after setup with any seeds and after any number of rounds, every
\* announcement stored in the local_rib of an AS X has X at index 0 of its
\* as_path and at no other index (seeded announcements included), and the
\* snapshot reports exactly the stored path.
C4_OwnAsnFirst ==
    \A x \in DOMAIN policy_store : \A p \in DOMAIN policy_store[x].local_rib :
       LET as_path == policy_store[x].local_rib[p].as_path
       IN /\ as_path # <<>>
          /\ as_path[1] = x
          /\ ~Contains(Tail(as_path), x)
          /\ get_local_rib_snapshot(policy_store)[x][prefix_to_string(p)] = as_path

\* the first call of the run was setup with this seed list
SetupWith(initial_announcements) ==
    /\ calls # <<>>
    /\ calls[1] = [op |-> "setup", initial_announcements |-> initial_announcements]

\* C5: loop prevention: an AS never stores in ribs_in or local_rib, and never
\* forwards, an announcement received from a neighbor whose as_path already
\* contains the AS's own ASN; in particular, seeding as_path [1,3,4] at AS 1
\* of the linear graph and running 5 rounds leaves the prefix in AS 2's
\* local_rib and absent from AS 3's.
C5_LoopPrevention ==
    /\ \A x \in DOMAIN policy_store :
          /\ \A n \in DOMAIN policy_store[x].ribs_in :
                \A p \in DOMAIN policy_store[x].ribs_in[n] :
                   ~Contains(policy_store[x].ribs_in[n][p].as_path, x)
          /\ \A p \in DOMAIN policy_store[x].local_rib :
                policy_store[x].local_rib[p].recv_relationship # Origin =>
                   ~Contains(Tail(policy_store[x].local_rib[p].as_path), x)
    /\ turns # <<>> =>
          \A i \in 1..Len(events) :
             Contains(events[i].ann.as_path, events[i].asn) =>
                /\ ~events[i].is_valid
                /\ events[i].best = None
                /\ events[i].sent = <<>>
    /\ SameGraph(as_graph, LinearGraph) /\ AllBGP /\ Len(calls) = 1
       /\ SetupWith(<<Seed(1, P24, <<1, 3, 4>>)>>) /\ round = 5 =>
          /\ P24 \in DOMAIN policy_store[2].local_rib
          /\ P24 \notin DOMAIN policy_store[3].local_rib

\* the run seeded with as_path [1,3,4] at AS 1 is over: AS 2 holds the route,
\* and AS 3 turned down the announcement that names it
C5_Witness ==
    /\ SameGraph(as_graph, LinearGraph)
    /\ SetupWith(<<Seed(1, P24, <<1, 3, 4>>)>>)
    /\ Len(calls) = 1
    /\ round = 5
    /\ policy_store[2].local_rib[P24].as_path = <<2, 1, 3, 4>>
    /\ policy_store[3].ribs_in = EmptyMap
    /\ policy_store[3].local_rib = EmptyMap

\* the run was started by the scenario's setup_engine
ScenarioRun == calls # <<>> /\ calls[1].op = "setup_engine"

\* C6: ROV defense in the engine: with the scenario's ROA for origin 777 and
\* 10.0.0.0/24 (max length 24) loaded, victim 777 announcing 10.0.0.0/24 and
\* attacker 666 announcing 10.0.0.0/25, no ROV-enabled AS ever accepts the /25
\* route into ribs_in or local_rib, and with every AS adopting ROV
\* SubprefixHijack.is_successful returns false.
C6_RovDefense ==
    ScenarioRun /\ SameGraph(as_graph, HijackGraph) =>
      /\ \A x \in DOMAIN policy_store :
            policy_store[x].settings = "Rov" /\ x # ATTACKER =>
               /\ P25 \notin DOMAIN policy_store[x].local_rib
               /\ \A n \in DOMAIN policy_store[x].ribs_in :
                     P25 \notin DOMAIN policy_store[x].ribs_in[n]
      /\ (\A x \in DOMAIN policy_store : policy_store[x].settings = "Rov") =>
            ~is_successful(TheScenario, policy_store, as_graph)

\* the run is S1 followed by a withdrawal seeded at AS 4
WithdrawnAtOrigin ==
    /\ SameGraph(as_graph, LinearGraph)
    /\ SetupWith(<<Seed(4, P24, <<>>)>>)
    /\ Len(calls) = 2
    /\ calls[2] = [op |-> "seed_ann", asn |-> 4, ann |-> Withdrawal(4, P24)]

\* C7: withdrawal convergence: after the linear-propagation run (prefix
\* originated at AS 4 and held by ASes 1, 2, 3, 4), seeding a withdrawal for
\* the same prefix at AS 4 and running 5 more rounds leaves the prefix in no
\* AS's local_rib.
C7_WithdrawalConvergence ==
    WithdrawnAtOrigin /\ round = 5 =>
       \A x \in DOMAIN policy_store : P24 \notin DOMAIN policy_store[x].local_rib

SingleOriginRun ==
    Len(calls) = 1 /\ calls[1].op = "setup" /\ SingleOrigin

C9_DiamondExport ==
    SameGraph(as_graph, DiamondGraph) /\ Len(calls) = 1 =>
      /\ SetupWith(<<Seed(2, P24, <<>>)>>) /\ round = 5 =>
            \A x \in {1, 3, 4} : P24 \in DOMAIN policy_store[x].local_rib
      /\ SetupWith(<<Seed(1, P24, <<>>)>>) =>
            /\ P24 \in DOMAIN policy_store[3].local_rib =>
                  ~Contains(policy_store[3].local_rib[P24].as_path, 2)
            /\ 2 \notin DOMAIN policy_store[3].ribs_in
            /\ \A i \in 1..Len(policy_store[3].recv_q) :
                  policy_store[3].recv_q[i].ann.next_hop_asn # 2

\* on the diamond with AS 1 the origin, the run is over: AS 2 holds its
\* provider's route and AS 3 holds the route straight from AS 1
C9_Witness ==
    /\ SameGraph(as_graph, DiamondGraph)
    /\ Len(calls) = 1
    /\ SetupWith(<<Seed(1, P24, <<>>)>>)
    /\ round = 5
    /\ policy_store[2].local_rib[P24].as_path = <<2, 1>>
    /\ policy_store[3].local_rib[P24].as_path = <<3, 1>>

-----------------------------------------------------------------------------
(* Determinism: the runs of one graph under every visiting order *)

\* the graph, built with its Vecs in the written order
Canonical(g) ==
    MakeGraph(CHOOSE builders \in BuilderLists : SameGraph(g, MakeGraph(builders, "asc")),
              "asc")

\* the policy store that the calls made so far, and k rounds after the last
\* of them, leave on the canonical graph with every HashMap in ascending order
Reference(g, store, history, k) ==
    LET g0 == Canonical(g)
        order0 == UniformOrder("asc")
        store0 == [a \in DOMAIN store |-> Policy_with_settings(a, store[a].settings)]
        first == IF history[1].op = "setup_engine"
                 THEN setup_engine(TheScenario, store0, g0, order0).store
                 ELSE setup(store0, g0, history[1].initial_announcements, order0).store
    IN IF Len(history) = 1 THEN run(first, g0, order0, k)
       ELSE run([run(first, g0, order0, MaxRounds) EXCEPT
                    ![history[2].asn] = seed_ann(@, history[2].ann)],
                g0, order0, k)

\* the diamond and the hijack graph with the default policies; the Vecs, the
\* maps read by the rounds (as_dict, ribs_in) and the maps read by setup
\* (policy store, local_rib) each in either order
InitDet ==
    \E builders \in {DiamondBuilders, HijackBuilders} :
      \E vec \in Orders, keys \in Orders, store \in Orders :
        /\ as_graph = MakeGraph(builders, vec)
        /\ hash_order = [as_dict |-> keys, policy_store |-> store,
                         ribs_in |-> keys, local_rib |-> store]
        /\ policy_store = SimulationEngine_new(as_graph)
        /\ route_validator = RouteValidator_new
        /\ phase = "providers"
        /\ idx = 1
        /\ round = 0
        /\ calls = <<>>
        /\ turns = <<>>
        /\ events = <<>>
        /\ probe = NoProbe

SpecDet == InitDet /\ [][Next]_vars

\* C10: determinism: for a fixed graph, seed list and round count k, the
\* snapshot after setup and run(k) is unique: it does not depend on the order
\* in which the ASes of one rank are visited, on the order of the visits of
\* the to-peers phase, or on the iteration order of the neighbor lists and of
\* ribs_in.  Every run is compared, at the end of each round, with the run of
\* the same calls in one fixed order.
C10_Determinism ==
    calls # <<>> /\ idx = 1 /\ phase = "providers" =>
       get_local_rib_snapshot(policy_store) =
          get_local_rib_snapshot(Reference(as_graph, policy_store, calls, round))

-----------------------------------------------------------------------------
(* src/as_graph.rs: the graph of the crate root, a HashMap of AS nodes that   *)
(* the caller fills with insert                                                *)

\* ASes of the graphs handed to the graph functions
MaxAsn == 3

\* AS::from_asn_sets: the HashSets are collected into Vecs
AS_from_asn_sets(asn, peer_asns, provider_asns, customer_asns, order) ==
    [asn |-> asn,
     peers |-> HashIter(peer_asns, order),
     providers |-> HashIter(provider_asns, order),
     customers |-> HashIter(customer_asns, order),
     tier_1 |-> FALSE, ixp |-> FALSE, propagation_rank |-> None]

\* ASGraph::new followed by one insert per AS
ASGraph_insert_all(nodes) ==
    [as_dict |-> [a \in {n.asn : n \in nodes} |-> CHOOSE n \in nodes : n.asn = a],
     propagation_ranks |-> <<>>]

\* the while-let loop of check_for_cycles for one start node: the stack holds
\* (asn, path) pairs and is popped at the back; TRUE when it returns Err
RECURSIVE cycle_from(_, _, _)
cycle_from(as_dict, stack, visited) ==
    IF stack = <<>> THEN FALSE
    ELSE LET top == stack[Len(stack)]
             rest == SubSeq(stack, 1, Len(stack) - 1)
             current_asn == top[1]
             path == top[2] \cup {current_asn}
             pushed == IF current_asn \in DOMAIN as_dict
                       THEN [i \in 1..Len(as_dict[current_asn].providers) |->
                               <<as_dict[current_asn].providers[i], path>>]
                       ELSE <<>>
         IN IF current_asn \in top[2] THEN TRUE
            ELSE IF current_asn \in visited THEN cycle_from(as_dict, rest, visited)
            ELSE cycle_from(as_dict, rest \o pushed, visited \cup {current_asn})

\* ASGraph::check_for_cycles of src/as_graph.rs
ASGraph_check_for_cycles(graph) ==
    IF \E a \in DOMAIN graph.as_dict : cycle_from(graph.as_dict, << <<a, {}>> >>, {})
    THEN "Err" ELSE "Ok"

\* ASGraph::check_for_cycles of as_graphs/as_graph/as_graph.rs, on a built graph
check_for_cycles(g) ==
    IF \E a \in as_dict_keys(g) :
          a \in Range(g.providers[a]) \/ a \in Range(g.customers[a])
    THEN "Err" ELSE "Ok"

\* the builder list of the same ASes, for ASGraph::build
BuildersOf(graph, order) ==
    LET asns == HashIter(DOMAIN graph.as_dict, order)
    IN [i \in 1..Len(asns) |->
          ASBuilder(asns[i], graph.as_dict[asns[i]].peers, graph.as_dict[asns[i]].providers,
                    graph.as_dict[asns[i]].customers, graph.as_dict[asns[i]].tier_1)]

\* a closure that asks for one ranked provider only
any_provider_ranked(as_dict, as_obj) ==
    \E p \in Range(as_obj.providers) :
        IF p \in DOMAIN as_dict THEN as_dict[p].propagation_rank # None ELSE FALSE

\* the closure of providers.iter().all(..) in assign_as_propagation_rank
all_providers_ranked(as_dict, as_obj) ==
    \A p \in Range(as_obj.providers) :
        IF p \in DOMAIN as_dict THEN as_dict[p].propagation_rank # None ELSE FALSE

\* the while loop of assign_as_propagation_rank.  A pass that ranks no AS
\* changes nothing, so the loop then repeats it for ever: terminates is FALSE.
RECURSIVE rank_loop(_, _, _, _, _)
rank_loop(as_dict, unassigned, current_rank, propagation_ranks, order) ==
    IF unassigned = {}
    THEN [terminates |-> TRUE, as_dict |-> as_dict, propagation_ranks |-> propagation_ranks]
    ELSE LET current_rank_asns ==
                 SelectSeq(HashIter(unassigned, order), LAMBDA asn :
                     IF asn \in DOMAIN as_dict
                     THEN \/ as_dict[asn].providers = <<>>
                          \/ all_providers_ranked(as_dict, as_dict[asn])
                     ELSE FALSE)
             ranked == [a \in DOMAIN as_dict |->
                          IF a \in Range(current_rank_asns)
                          THEN [as_dict[a] EXCEPT !.propagation_rank = Some(current_rank)]
                          ELSE as_dict[a]]
         IN IF current_rank_asns = <<>>
            THEN [terminates |-> FALSE, as_dict |-> as_dict,
                  propagation_ranks |-> propagation_ranks]
            ELSE rank_loop(ranked, unassigned \ Range(current_rank_asns), current_rank + 1,
                           Append(propagation_ranks, current_rank_asns), order)

\* ASGraph::assign_as_propagation_rank of src/as_graph.rs; the graph is
\* written only when the loop ends
ASGraph_assign_as_propagation_rank(graph, order) ==
    LET r == rank_loop(graph.as_dict, DOMAIN graph.as_dict, 0, <<>>, order)
    IN [terminates |-> r.terminates,
        graph |-> IF r.terminates
                  THEN [as_dict |-> r.as_dict, propagation_ranks |-> r.propagation_ranks]
                  ELSE graph]

-----------------------------------------------------------------------------
(* The graph functions on their own: every graph of MaxAsn ASes whose ASes   *)
(* have at most two providers, one of which may, for the last AS, be an ASN  *)
(* that was never inserted; the customer sets mirror the provider sets, or, with no          *)
(* providers at all, an AS lists one customer of its own choice               *)

GraphASNs == 1..MaxAsn

AtMost(S, n) == {T \in SUBSET S : Cardinality(T) <= n}

GraphInputs(order) ==
    {ASGraph_insert_all({AS_from_asn_sets(a, {}, provs[a],
                                          {c \in GraphASNs : a \in provs[c]}, order)
                          : a \in GraphASNs})
        : provs \in {f \in [GraphASNs -> AtMost(1..(MaxAsn + 1), 2)] :
                        \A a \in GraphASNs : (MaxAsn + 1) \in f[a] => a = MaxAsn}}
    \cup
    {ASGraph_insert_all({AS_from_asn_sets(a, {}, {}, custs[a], order) : a \in GraphASNs})
        : custs \in [GraphASNs -> AtMost(GraphASNs, 1)]}

InitGraph ==
    \E o \in Orders :
      \E graph \in GraphInputs(o) :
        /\ as_graph = graph
        /\ hash_order = UniformOrder(o)
        /\ policy_store = <<>>
        /\ route_validator = RouteValidator_new
        /\ phase = "providers"
        /\ idx = 1
        /\ round = 0
        /\ calls = <<>>
        /\ turns = <<>>
        /\ events = <<>>
        /\ probe = NoProbe

Unranked == probe.op \in {"none", "check_for_cycles", "build"}

\* as_graph.check_for_cycles() on the graph of src/as_graph.rs
CheckForCycles ==
    /\ Unranked
    /\ probe' = [op |-> "check_for_cycles", result |-> ASGraph_check_for_cycles(as_graph)]
    /\ UNCHANGED <<as_graph, hash_order, policy_store, route_validator,
                   phase, idx, round, calls, turns, events>>

\* ASGraph::build(builders) of as_graphs/as_graph/as_graph.rs, then
\* check_for_cycles() on the built graph
BuildAndCheck ==
    /\ Unranked
    /\ LET g == build(BuildersOf(as_graph, hash_order.as_dict))
       IN probe' = [op |-> "build", graph |-> g, result |-> check_for_cycles(g)]
    /\ UNCHANGED <<as_graph, hash_order, policy_store, route_validator,
                   phase, idx, round, calls, turns, events>>

\* as_graph.assign_as_propagation_rank(), which the callers reach only when
\* check_for_cycles returned Ok
AssignRank ==
    /\ probe.op = "check_for_cycles"
    /\ probe.result = "Ok"
    /\ LET r == ASGraph_assign_as_propagation_rank(as_graph, hash_order.as_dict)
       IN /\ as_graph' = r.graph
          /\ probe' = [op |-> "assign_as_propagation_rank", terminates |-> r.terminates]
    /\ UNCHANGED <<hash_order, policy_store, route_validator,
                   phase, idx, round, calls, turns, events>>

NextGraph ==
    \/ CheckForCycles
    \/ BuildAndCheck
    \/ AssignRank

SpecGraph == InitGraph /\ [][NextGraph]_vars

\* the edges customer -> provider that the ASes of a graph list, read from
\* the provider lists and from the customer lists
ListedEdges(asns, providers, customers) ==
    {e \in (1..(MaxAsn + 1)) \X (1..(MaxAsn + 1)) :
        \/ e[1] \in asns /\ e[2] \in providers[e[1]]
        \/ e[2] \in asns /\ e[1] \in customers[e[2]]}

RECURSIVE ReachFrom(_, _)
ReachFrom(E, S) ==
    LET T == S \cup {e[2] : e \in {x \in E : x[1] \in S}}
    IN IF T = S THEN S ELSE ReachFrom(E, T)

HasDirectedCycle(E) == \E e \in E : e[1] \in ReachFrom(E, {e[2]})

EdgesOfDict(graph) ==
    ListedEdges(DOMAIN graph.as_dict,
                [a \in DOMAIN graph.as_dict |-> Range(graph.as_dict[a].providers)],
                [a \in DOMAIN graph.as_dict |-> Range(graph.as_dict[a].customers)])

EdgesOfBuilt(g) ==
    ListedEdges(as_dict_keys(g),
                [a \in as_dict_keys(g) |-> Range(g.providers[a])],
                [a \in as_dict_keys(g) |-> Range(g.customers[a])])

\* check_for_cycles of the crate root's graph returns an error if and only if
\* the listed edges have a directed cycle
C11_RootCycleDetection ==
    probe.op = "check_for_cycles" =>
        (probe.result = "Err" <=> HasDirectedCycle(EdgesOfDict(as_graph)))

\* the same statement for check_for_cycles of the built graph
C11_BuiltCycleDetection ==
    probe.op = "build" =>
        (probe.result = "Err" <=> HasDirectedCycle(EdgesOfBuilt(probe.graph)))

\* C11: check_for_cycles returns an error if and only if the customer-provider
\* subgraph has a directed cycle, an AS that lists itself as provider or as
\* customer being a cycle; stated for both implementations of the function
C11_CycleDetection == C11_RootCycleDetection /\ C11_BuiltCycleDetection

\* the statement for the crate root's graph when the customer lists mirror
\* the provider lists
Symmetric(graph) ==
    \A a \in DOMAIN graph.as_dict, b \in DOMAIN graph.as_dict :
        b \in Range(graph.as_dict[a].providers) <=> a \in Range(graph.as_dict[b].customers)

C11_SymmetricCycleDetection ==
    probe.op = "check_for_cycles" /\ Symmetric(as_graph) =>
        (probe.result = "Err" <=> HasDirectedCycle(EdgesOfDict(as_graph)))

\* the rank that assign_as_propagation_rank left at an AS
RankIn(graph, a) == graph.as_dict[a].propagation_rank[1]

\* C12: assign_as_propagation_rank gives rank 0 exactly to the ASes with no
\* providers and every other AS one more than the maximum rank of its
\* providers, so a provider's rank is below its customer's; propagation_ranks
\* lists at index r the ASes of rank r
C12_PropagationRank ==
    probe.op = "assign_as_propagation_rank" /\ probe.terminates =>
        LET d == as_graph.as_dict
        IN /\ \A a \in DOMAIN d :
                /\ d[a].propagation_rank # None
                /\ \A p \in Range(d[a].providers) :
                      p \in DOMAIN d /\ d[p].propagation_rank # None
                /\ RankIn(as_graph, a) = 0 <=> d[a].providers = <<>>
                /\ d[a].providers # <<>> =>
                      RankIn(as_graph, a) =
                          1 + SetMax({RankIn(as_graph, p) : p \in Range(d[a].providers)})
                /\ \A p \in Range(d[a].providers) : RankIn(as_graph, p) < RankIn(as_graph, a)
           /\ \A r \in 1..Len(as_graph.propagation_ranks) :
                /\ as_graph.propagation_ranks[r] # <<>>
                /\ Range(as_graph.propagation_ranks[r]) =
                      {a \in DOMAIN d : RankIn(as_graph, a) = r - 1}
           /\ \A a \in DOMAIN d : RankIn(as_graph, a) < Len(as_graph.propagation_ranks)

\* a ranked graph in which an AS has two providers of different ranks
C12_Witness ==
    /\ probe.op = "assign_as_propagation_rank"
    /\ probe.terminates
    /\ \E a \in DOMAIN as_graph.as_dict :
         \E p \in Range(as_graph.as_dict[a].providers), q \in Range(as_graph.as_dict[a].providers) :
            /\ RankIn(as_graph, p) = 0
            /\ RankIn(as_graph, q) = 1
            /\ RankIn(as_graph, a) = 2

-----------------------------------------------------------------------------
(* The route validator on its own: up to MaxRoas ROAs are added to an empty   *)
(* validator, and after each addition a prefix and an origin are looked up    *)

\* ROAs added to one validator
MaxRoas == 2

P8 == IPv4(10, 0, 0, 0, 8)
P25High == IPv4(10, 0, 0, 128, 25)
Q24 == IPv4(10, 0, 1, 0, 24)
\* 10.0.0.1/24: a prefix written with host bits
P24Host == IPv4(10, 0, 0, 1, 24)

\* every ROA prefix with a routed and a non-routed origin and the maximum
\* length /24 (/25 for the /25), and one ROA that allows the /25 under the /24
RoaInputs ==
    {ROA_new(prefix, origin_asn, IF prefix.len < P24.len THEN P24.len ELSE prefix.len) :
        prefix \in {P8, P24, P25, Q24}, origin_asn \in {0, VICTIM}}
    \cup {ROA_new(P24, VICTIM, P25.len)}

QueryPrefixes == {P8, P24, P25, P25High, Q24, P24Host}
QueryOrigins == {0, ATTACKER, VICTIM}

InitRoa ==
    /\ as_graph = LinearGraph
    /\ hash_order = UniformOrder("asc")
    /\ policy_store = <<>>
    /\ route_validator = RouteValidator_new
    /\ phase = "providers"
    /\ idx = 1
    /\ round = 0
    /\ calls = <<>>
    /\ turns = <<>>
    /\ events = <<>>
    /\ probe = NoProbe

\* validator.add_roa(roa)
AddRoa ==
    /\ Len(calls) < MaxRoas
    /\ \E roa \in RoaInputs :
         /\ route_validator' = add_roa(route_validator, roa)
         /\ calls' = Append(calls, [op |-> "add_roa", roa |-> roa])
    /\ probe' = NoProbe
    /\ UNCHANGED <<as_graph, hash_order, policy_store, phase, idx, round, turns, events>>

\* validator.get_roa_outcome(&prefix, origin): the ROAs the walk collected and
\* the outcome returned
GetRoaOutcome ==
    /\ probe = NoProbe
    /\ \E prefix \in QueryPrefixes, origin_asn \in QueryOrigins :
         \E result \in get_roa_outcome(route_validator, prefix, origin_asn) :
            probe' = [op |-> "get_roa_outcome", prefix |-> prefix, origin |-> origin_asn,
                      relevant_roas |-> get_relevant_roas(route_validator, prefix),
                      result |-> result]
    /\ UNCHANGED <<as_graph, hash_order, policy_store, route_validator,
                   phase, idx, round, calls, turns, events>>

\* roa.get_validity(&prefix, origin) of a ROA that is in no validator
GetValidity ==
    /\ probe = NoProbe
    /\ calls = <<>>
    /\ \E roa \in RoaInputs, prefix \in QueryPrefixes, origin_asn \in QueryOrigins :
         probe' = [op |-> "get_validity", roa |-> roa, prefix |-> prefix, origin |-> origin_asn,
                   result |-> get_validity(roa, prefix, origin_asn)]
    /\ UNCHANGED <<as_graph, hash_order, policy_store, route_validator,
                   phase, idx, round, calls, turns, events>>

NextRoa ==
    \/ AddRoa
    \/ GetRoaOutcome
    \/ GetValidity

SpecRoa == InitRoa /\ [][NextRoa]_vars

\* the ROAs added so far
InsertedRoas == {calls[i].roa : i \in 1..Len(calls)}

\* the ROA covers the prefix: it is no longer than the prefix and its bits
\* are the leading bits of the prefix
Covers(roa, prefix) ==
    /\ roa.prefix.len <= prefix.len
    /\ \A i \in 1..roa.prefix.len : roa.prefix.ip[i] = prefix.ip[i]

\* the validities from best to worst
ValidityOrder ==
    <<"Valid", "Unknown", "InvalidLength", "InvalidOrigin", "InvalidLengthAndOrigin">>

ValidityRank(v) == CHOOSE i \in 1..Len(ValidityOrder) : ValidityOrder[i] = v

\* the validity of one ROA for a prefix and an origin, by the table
TableValidity(roa, prefix, origin_asn) ==
    IF ~Covers(roa, prefix) THEN "Unknown"
    ELSE IF prefix.len <= roa.max_length
         THEN (IF roa.origin = origin_asn THEN "Valid" ELSE "InvalidOrigin")
         ELSE (IF roa.origin = origin_asn THEN "InvalidLength" ELSE "InvalidLengthAndOrigin")

\* C13: get_roa_outcome returns (Unknown, Unknown) when no added ROA covers the
\* prefix; otherwise it returns the outcome of a covering ROA whose validity
\* has the smallest ordinal among the validities of all covering ROAs; the
\* trie walk collects exactly the added ROAs that cover the prefix
C13_RoaOutcome ==
    probe.op = "get_roa_outcome" =>
        LET covering == {roa \in InsertedRoas : Covers(roa, probe.prefix)}
            validities == {TableValidity(roa, probe.prefix, probe.origin) : roa \in covering}
        IN /\ probe.relevant_roas = covering
           /\ IF covering = {}
              THEN probe.result = <<"Unknown", "Unknown">>
              ELSE /\ probe.result[1] \in validities
                   /\ \A v \in validities : ValidityRank(probe.result[1]) <= ValidityRank(v)
                   /\ probe.result[2] \in {"Routed", "NonRouted"}

\* a lookup that found two covering ROAs of different prefixes and validities
C13_Witness ==
    /\ probe.op = "get_roa_outcome"
    /\ \E r1 \in probe.relevant_roas, r2 \in probe.relevant_roas :
         /\ r1.prefix # r2.prefix
         /\ TableValidity(r1, probe.prefix, probe.origin) = "Valid"
         /\ TableValidity(r2, probe.prefix, probe.origin) = "InvalidLength"
    /\ probe.result[1] = "Valid"

\* C14: the validity of a single ROA is Unknown when the ROA does not cover
\* the prefix; otherwise Valid when the length is within max_length and the
\* origin matches, InvalidLength when only the length fails, InvalidOrigin
\* when only the origin fails, InvalidLengthAndOrigin when both fail
C14_RoaValidity ==
    probe.op = "get_validity" =>
        probe.result = TableValidity(probe.roa, probe.prefix, probe.origin)

\* a covering ROA for which both the length and the origin fail
C14_Witness ==
    /\ probe.op = "get_validity"
    /\ Covers(probe.roa, probe.prefix)
    /\ probe.prefix.len > probe.roa.max_length
    /\ probe.roa.origin # probe.origin
    /\ probe.result = "InvalidLengthAndOrigin"

\* the only ROA added is at a prefix of which the looked-up prefix is a more
\* specific part
OnlyRoaAbove ==
    /\ Len(calls) = 1
    /\ probe.op = "get_roa_outcome"
    /\ Covers(calls[1].roa, probe.prefix)
    /\ probe.prefix.len > calls[1].roa.prefix.len

\* C15: when the only ROA is at P and P' is a more specific prefix inside P,
\* the validity of get_roa_outcome(P', origin) is not Unknown, for every origin
C15_RefinementMonotone == OnlyRoaAbove => probe.result[1] # "Unknown"

\* the /25 looked up under a ROA at the /8, for an origin that is not the ROA's
C15_Witness ==
    /\ OnlyRoaAbove
    /\ calls[1].roa.prefix = P8
    /\ probe.prefix = P25High
    /\ probe.origin # calls[1].roa.origin

-----------------------------------------------------------------------------
(* The policy functions on their own: validate_announcement, should_propagate *)
(* and compare_announcements of the trait and of BGPPolicy, and               *)
(* Announcement::copy_and_process, each applied to every input of a small set *)

\* longest AS path of the announcements handed to the policy functions
MaxPathLen == 3

Relationships == {Providers, Peers, Customers, Origin, Unknown}

\* the ASes that receive
Receivers == {1, 2}

\* AS paths of up to MaxPathLen hops: a first hop and then the victim's ASN or
\* that of a receiver
PathInputs ==
    {<<>>} \cup
    {[i \in 1..n |-> IF i = 1 THEN first ELSE rest] :
        n \in 1..MaxPathLen, first \in {1, 2, 3}, rest \in {1, VICTIM}}

AnnInputs ==
    {[Announcement_new_with_path(P24, as_path, next_hop_asn, Unknown)
         EXCEPT !.withdraw = withdraw] :
        as_path \in PathInputs, next_hop_asn \in {2, 3}, withdraw \in BOOLEAN}

InitPolicy ==
    /\ as_graph = LinearGraph
    /\ hash_order = UniformOrder("asc")
    /\ policy_store = <<>>
    /\ route_validator = RouteValidator_new
    /\ phase = "providers"
    /\ idx = 1
    /\ round = 0
    /\ calls = <<>>
    /\ turns = <<>>
    /\ events = <<>>
    /\ probe = NoProbe

ProbeOnly ==
    UNCHANGED <<as_graph, hash_order, policy_store, route_validator,
                phase, idx, round, calls, turns, events>>

\* extension.validate_announcement(&ann, recv_relationship, &as_obj, None), by
\* the trait's default and by BGPPolicy
ValidateAnnouncement ==
    /\ probe = NoProbe
    /\ \E ann \in AnnInputs, recv_relationship \in Relationships, asn \in Receivers :
         probe' = [op |-> "validate_announcement", ann |-> ann,
                   recv_relationship |-> recv_relationship, asn |-> asn,
                   default |-> default_validate_announcement(ann, recv_relationship, asn),
                   bgp |-> BGPPolicy_validate_announcement(ann, recv_relationship, asn)]
    /\ ProbeOnly

\* extension.should_propagate(&ann, recv_relationship, send_relationship)
ShouldPropagate ==
    /\ probe = NoProbe
    /\ \E recv_relationship \in Relationships, send_relationship \in Relationships :
         probe' = [op |-> "should_propagate",
                   recv_relationship |-> recv_relationship,
                   send_relationship |-> send_relationship,
                   default |-> default_should_propagate(recv_relationship, send_relationship),
                   bgp |-> BGPPolicy_should_propagate(recv_relationship, send_relationship)]
    /\ ProbeOnly

\* the candidate routes of one prefix: a route of each length from each
\* neighbor, the neighbor being a customer, a peer, a provider or none of them
Candidates ==
    {[ann |-> Announcement_new_with_path(
                  P24, [i \in 1..n |-> IF i = 1 THEN next_hop_asn ELSE VICTIM],
                  next_hop_asn, invert(rel)),
      rel |-> rel] :
        n \in 1..MaxPathLen, next_hop_asn \in {2, 3, 4},
        rel \in {Customers, Peers, Providers, Unknown}}

\* extension.compare_announcements on the pairs of three candidates
CompareAnnouncements ==
    /\ probe = NoProbe
    /\ \E c1 \in Candidates, c2 \in Candidates, c3 \in Candidates :
         probe' = [op |-> "compare_announcements", c1 |-> c1, c2 |-> c2, c3 |-> c3,
                   r12 |-> compare_announcements(c1.ann, c2.ann, c1.rel, c2.rel),
                   r21 |-> compare_announcements(c2.ann, c1.ann, c2.rel, c1.rel),
                   r23 |-> compare_announcements(c2.ann, c3.ann, c2.rel, c3.rel),
                   r13 |-> compare_announcements(c1.ann, c3.ann, c1.rel, c3.rel)]
    /\ ProbeOnly

\* the announcements copied: with and without a BGPsec path and next ASN
CopyInputs ==
    {[ann EXCEPT !.bgpsec_as_path = bgpsec_as_path, !.bgpsec_next_asn = bgpsec_next_asn] :
        ann \in {a \in AnnInputs : a.next_hop_asn = 2 /\ Len(a.as_path) <= 2},
        bgpsec_as_path \in {None, Some(<<2>>)},
        bgpsec_next_asn \in {None, Some(2)}}

\* ann.copy_and_process(next_hop_asn, recv_relationship)
CopyAndProcess ==
    /\ probe = NoProbe
    /\ \E ann \in CopyInputs, next_hop_asn \in {1, 2},
          recv_relationship \in {Providers, Peers, Customers} :
         probe' = [op |-> "copy_and_process", ann |-> ann, next_hop_asn |-> next_hop_asn,
                   recv_relationship |-> recv_relationship,
                   result |-> copy_and_process(ann, next_hop_asn, recv_relationship)]
    /\ ProbeOnly

NextPolicy ==
    \/ ValidateAnnouncement
    \/ ShouldPropagate
    \/ CompareAnnouncements
    \/ CopyAndProcess

SpecPolicy == InitPolicy /\ [][NextPolicy]_vars

\* the acceptance rule: no empty path unless from the origin (withdrawals
\* excepted), no path with the receiver in it, no path whose first hop is not
\* the next hop
AcceptedByRule(ann, recv_relationship, asn) ==
    /\ ~(ann.as_path = <<>> /\ recv_relationship # Origin /\ ~ann.withdraw)
    /\ ~Contains(ann.as_path, asn)
    /\ ~(ann.as_path # <<>> /\ ann.as_path[1] # ann.next_hop_asn)

\* the trait's default validate_announcement follows the acceptance rule
C16_TraitValidate ==
    probe.op = "validate_announcement" =>
        probe.default = AcceptedByRule(probe.ann, probe.recv_relationship, probe.asn)

\* BGPPolicy::validate_announcement follows the acceptance rule
C16_BgpValidate ==
    probe.op = "validate_announcement" =>
        probe.bgp = AcceptedByRule(probe.ann, probe.recv_relationship, probe.asn)

\* C16: default (BGP) validation returns false exactly when (a) the AS path is
\* empty and recv_rel is not Origin, (b) the receiver's ASN is in the path, or
\* (c) the path is not empty and its first hop is not next_hop_asn; (a) is not
\* applied to withdrawals; stated for the trait's default and for BGPPolicy
C16_DefaultValidate == C16_TraitValidate /\ C16_BgpValidate

\* the export rule: everything to customers, and to peers and providers only
\* what came from a customer or is the AS's own
ExportedByRule(recv_relationship, send_relationship) ==
    IF recv_relationship \in {Origin, Customers} THEN TRUE
    ELSE send_relationship = Customers

\* C17: should_propagate is true for every send_rel when recv_rel is Origin or
\* Customers, and when recv_rel is Peers or Providers it is true for
\* send_rel = Customers only; the trait's default and BGPPolicy alike
C17_DefaultExport ==
    probe.op = "should_propagate" /\ probe.recv_relationship # Unknown =>
        /\ probe.default = ExportedByRule(probe.recv_relationship, probe.send_relationship)
        /\ probe.bgp = ExportedByRule(probe.recv_relationship, probe.send_relationship)

\* a route from a peer is not exported to a provider
C17_Witness ==
    /\ probe.op = "should_propagate"
    /\ probe.recv_relationship = Peers
    /\ probe.send_relationship = Providers
    /\ ~probe.default
    /\ ~probe.bgp

\* C18: the default comparison is a total order on the candidate routes of a
\* prefix: a route from a customer beats one from a peer, which beats one
\* from a provider; with the same preference the shorter AS path wins; with
\* the same length the lower next_hop_asn wins; it is antisymmetric and
\* transitive, and candidates with distinct next hops never compare Equal
C18_CompareTotalOrder ==
    probe.op = "compare_announcements" =>
        LET c1 == probe.c1
            c2 == probe.c2
        IN /\ c1.rel = Customers /\ c2.rel \in {Peers, Providers} => probe.r12 = "Less"
           /\ c1.rel = Peers /\ c2.rel = Providers => probe.r12 = "Less"
           /\ c1.rel = c2.rel /\ Len(c1.ann.as_path) < Len(c2.ann.as_path) =>
                 probe.r12 = "Less"
           /\ /\ c1.rel = c2.rel
              /\ Len(c1.ann.as_path) = Len(c2.ann.as_path)
              /\ c1.ann.next_hop_asn < c2.ann.next_hop_asn
              => probe.r12 = "Less"
           /\ probe.r12 = "Less" <=> probe.r21 = "Greater"
           /\ probe.r12 = "Greater" <=> probe.r21 = "Less"
           /\ probe.r12 = "Equal" <=> probe.r21 = "Equal"
           /\ probe.r12 = "Less" /\ probe.r23 = "Less" => probe.r13 = "Less"
           /\ probe.r12 # "Greater" /\ probe.r23 # "Greater" => probe.r13 # "Greater"
           /\ c1.ann.next_hop_asn # c2.ann.next_hop_asn => probe.r12 # "Equal"

\* a long route from a customer beats a short one from a peer, which beats a
\* provider's; and two routes that differ in the next hop only are ordered
C18_Witness ==
    /\ probe.op = "compare_announcements"
    /\ probe.c1.rel = Customers /\ probe.c2.rel = Peers /\ probe.c3.rel = Peers
    /\ Len(probe.c1.ann.as_path) > Len(probe.c2.ann.as_path)
    /\ Len(probe.c2.ann.as_path) = Len(probe.c3.ann.as_path)
    /\ probe.c2.ann.next_hop_asn < probe.c3.ann.next_hop_asn
    /\ probe.r12 = "Less" /\ probe.r23 = "Less" /\ probe.r13 = "Less"

\* C20: copy_and_process(sender, rel) on an announcement that is no withdrawal
\* returns a copy with sender prepended to as_path (and to bgpsec_as_path when
\* present), next_hop_asn = sender, recv_relationship = rel and
\* bgpsec_next_asn = Some(sender); on a withdrawal the copy differs from the
\* original in next_hop_asn and recv_relationship only
C20_CopyAndProcess ==
    probe.op = "copy_and_process" =>
        LET ann == probe.ann
            sender == probe.next_hop_asn
        IN probe.result =
             IF ann.withdraw
             THEN [ann EXCEPT !.next_hop_asn = sender,
                              !.recv_relationship = probe.recv_relationship]
             ELSE [ann EXCEPT !.as_path = <<sender>> \o ann.as_path,
                              !.bgpsec_as_path = IF ann.bgpsec_as_path = None THEN None
                                                 ELSE Some(<<sender>> \o ann.bgpsec_as_path[1]),
                              !.next_hop_asn = sender,
                              !.recv_relationship = probe.recv_relationship,
                              !.bgpsec_next_asn = Some(sender)]

\* the same with the copy of a withdrawal differing in bgpsec_next_asn too
C20_CopyAndProcessWithNextAsn ==
    probe.op = "copy_and_process" =>
        LET ann == probe.ann
            sender == probe.next_hop_asn
        IN probe.result =
             [ann EXCEPT !.as_path = IF ann.withdraw THEN @ ELSE <<sender>> \o @,
                         !.bgpsec_as_path = IF ann.withdraw \/ @ = None THEN @
                                            ELSE Some(<<sender>> \o ann.bgpsec_as_path[1]),
                         !.next_hop_asn = sender,
                         !.recv_relationship = probe.recv_relationship,
                         !.bgpsec_next_asn = Some(sender)]

-----------------------------------------------------------------------------
(* Seeding on its own: on the linear graph, after a setup and its rounds (or  *)
(* on the new engine), an announcement is seeded at an AS, and then the same  *)
(* announcement once more                                                      *)

InitSeed == Init /\ as_graph = LinearGraph

SetupThenRun == Setup /\ probe = NoProbe

\* the announcements seeded: for a held and for a new prefix, with and
\* without a path, and a withdrawal
SeedInputs(asn) ==
    {Seed(asn, P24, <<>>)[2], Seed(asn, P25, <<>>)[2], Seed(asn, P24, <<3, 4>>)[2],
     Withdrawal(asn, P24)}

\* policy.seed_ann(ann), between two runs
SeedOnce ==
    /\ Idle
    /\ probe = NoProbe
    /\ \E asn \in DOMAIN policy_store :
         \E ann \in SeedInputs(asn) :
            /\ policy_store' = [policy_store EXCEPT ![asn] = seed_ann(@, ann)]
            /\ probe' = [op |-> "seed_ann", asn |-> asn, ann |-> ann, times |-> 1,
                         before |-> policy_store]
    /\ UNCHANGED <<as_graph, hash_order, route_validator,
                   phase, idx, round, calls, turns, events>>

\* policy.seed_ann(ann) again, with the announcement of the first call
SeedAgain ==
    /\ probe.op = "seed_ann"
    /\ probe.times = 1
    /\ policy_store' = [policy_store EXCEPT ![probe.asn] = seed_ann(@, probe.ann)]
    /\ probe' = [probe EXCEPT !.times = 2, !.before = policy_store]
    /\ UNCHANGED <<as_graph, hash_order, route_validator,
                   phase, idx, round, calls, turns, events>>

NextSeed ==
    \/ SetupThenRun
    \/ TurnProviders
    \/ TurnPeers
    \/ TurnCustomers
    \/ SeedOnce
    \/ SeedAgain

SpecSeed == InitSeed /\ [][NextSeed]_vars

\* C19: seeding is idempotent: a second seed_ann with the same announcement
\* (no withdrawal) at the same AS leaves local_rib as the first call left it;
\* and seed_ann never changes ribs_in, ribs_out or recv_q
C19_SeedIdempotent ==
    probe.op = "seed_ann" =>
        /\ probe.times = 2 /\ ~probe.ann.withdraw =>
              policy_store[probe.asn].local_rib = probe.before[probe.asn].local_rib
        /\ \A a \in DOMAIN policy_store :
              /\ policy_store[a].ribs_in = probe.before[a].ribs_in
              /\ policy_store[a].ribs_out = probe.before[a].ribs_out
              /\ policy_store[a].recv_q = probe.before[a].recv_q

\* the second seeding of an announcement at an AS that holds another route
\* for the prefix, learned from a neighbor, and has a receive queue, RIBs-in
\* and RIBs-out that are not empty
C19_Witness ==
    /\ probe.op = "seed_ann"
    /\ probe.times = 2
    /\ ~probe.ann.withdraw
    /\ round = MaxRounds
    /\ calls[1].initial_announcements[1][1] # probe.asn
    /\ policy_store[probe.asn].ribs_in # EmptyMap
    /\ policy_store[probe.asn].ribs_out # EmptyMap
    /\ policy_store[probe.asn].recv_q # <<>>

-----------------------------------------------------------------------------
(* The engine on inputs that name ASNs it does not know: builders that list   *)
(* neighbors without a builder, seeds for an AS that is not in the graph,     *)
(* seeded paths through such an AS, and a policy store (a public field of     *)
(* the engine) that holds no policy for one AS of the graph                   *)

\* an ASN that no explored graph of this part contains
Stranger == ATTACKER

\* the linear graph, with neighbor lists that also name the stranger
StrayBuilders ==
    << ASBuilder(1, <<>>, <<>>, <<2, 3>>, TRUE),
       ASBuilder(2, <<Stranger>>, <<1>>, <<4, Stranger>>, FALSE),
       ASBuilder(3, <<>>, <<1, Stranger>>, <<>>, FALSE),
       ASBuilder(4, <<>>, <<2>>, <<>>, FALSE) >>

\* PolicyStore::new and create_policy for all ASes of the graph but the given
StoreWithout(g, missing) == [a \in as_dict_keys(g) \ missing |-> Policy_new(a)]

StraySeedLists(g) ==
    LET asns == as_dict_keys(g)
    IN {<<Seed(a, P24, <<>>)>> : a \in asns \cup {Stranger}}
       \cup {<<Seed(Stranger, P24, <<>>), Seed(a, P24, <<>>)>> : a \in asns}
       \cup {<<Seed(a, P24, <<Stranger, 4>>)>> : a \in asns}
       \cup {<< <<Stranger, Withdrawal(Stranger, P24)>>, Seed(a, P25, <<>>) >> : a \in asns}

InitTotal ==
    \E builders \in {StrayBuilders, DiamondBuilders}, o \in Orders :
      /\ as_graph = MakeGraph(builders, o)
      /\ hash_order = UniformOrder(o)
      /\ \E missing \in {{}} \cup {{a} : a \in as_dict_keys(as_graph)} :
            policy_store = StoreWithout(as_graph, missing)
      /\ route_validator = RouteValidator_new
      /\ phase = "providers"
      /\ idx = 1
      /\ round = 0
      /\ calls = <<>>
      /\ turns = <<>>
      /\ events = <<>>
      /\ probe = NoProbe

\* engine.setup(initial_announcements)
SetupTotal ==
    /\ Idle
    /\ \E initial_announcements \in StraySeedLists(as_graph) :
         LET r == setup(policy_store, as_graph, initial_announcements, hash_order)
         IN /\ policy_store' = r.store
            /\ events' = r.events
            /\ calls' = <<[op |-> "setup", initial_announcements |-> initial_announcements]>>
    /\ probe' = [op |-> "setup", before |-> policy_store]
    /\ Restart
    /\ UNCHANGED <<as_graph, hash_order, route_validator>>

\* one AS's turn of engine.run(rounds)
TurnTotal(ph) == TurnStep(ph) /\ probe' = [op |-> "turn", before |-> policy_store]

TurnProvidersTotal == TurnTotal("providers")
TurnPeersTotal == TurnTotal("peers")
TurnCustomersTotal == TurnTotal("customers")

NextTotal ==
    \/ SetupTotal
    \/ TurnProvidersTotal
    \/ TurnPeersTotal
    \/ TurnCustomersTotal

SpecTotal == InitTotal /\ [][NextTotal]_vars

\* a policy as the engine's code leaves it
WellFormedPolicy(a, policy) ==
    /\ policy.asn = a
    /\ \A p \in DOMAIN policy.local_rib :
          /\ policy.local_rib[p].prefix = p
          /\ ~policy.local_rib[p].withdraw
    /\ \A n \in DOMAIN policy.ribs_in : \A p \in DOMAIN policy.ribs_in[n] :
          /\ policy.ribs_in[n][p].prefix = p
          /\ policy.ribs_in[n][p].next_hop_asn = n
    /\ \A i \in 1..Len(policy.recv_q) :
          policy.recv_q[i].recv_relationship = policy.recv_q[i].ann.recv_relationship

\* what was sent to the AS a, in the order it was sent
SentTo(sends, a) ==
    LET mine == SelectSeq(sends, LAMBDA s : s.to = a)
    IN [i \in 1..Len(mine) |-> AnnInfo_new(mine[i].ann, mine[i].recv_rel)]

\* the seeds of a list that are addressed to an AS with a policy
KnownSeeds(store, initial_announcements) ==
    SelectSeq(initial_announcements, LAMBDA seed : seed[1] \in DOMAIN store)

\* C21: the engine is total: setup and every turn of run yield a policy store
\* for the same ASes with well-formed policies, whatever the seeds and the
\* neighbors name; a seed addressed to an ASN without a policy is skipped
\* (setup gives what it gives for the list without that seed), and a
\* delivery addressed to an ASN without a policy changes no policy: after
\* a turn or a setup every receive queue holds what it held (nothing, for
\* the AS whose turn drained it) followed by what was sent to that AS
C21_EngineTotal ==
    /\ \A a \in DOMAIN policy_store : WellFormedPolicy(a, policy_store[a])
    /\ probe.op \in {"setup", "turn"} =>
          DOMAIN policy_store = DOMAIN probe.before
    /\ probe.op = "setup" =>
          LET seeds == calls[1].initial_announcements
              known == setup(probe.before, as_graph, KnownSeeds(probe.before, seeds), hash_order)
          IN /\ policy_store = known.store
             /\ events = known.events
             /\ \A a \in DOMAIN policy_store :
                   policy_store[a].recv_q = SentTo(SentBy(events), a)
    /\ probe.op = "turn" =>
          LET asn == turns[Len(turns)].asn
          IN \A a \in DOMAIN policy_store :
                /\ policy_store[a].recv_q =
                      (IF a = asn THEN <<>> ELSE probe.before[a].recv_q)
                          \o SentTo(SentBy(events), a)
                /\ a # asn => /\ policy_store[a].local_rib = probe.before[a].local_rib
                              /\ policy_store[a].ribs_in = probe.before[a].ribs_in
                              /\ policy_store[a].ribs_out = probe.before[a].ribs_out

\* an AS has sent to a neighbor that has no policy, after a setup whose seed
\* list named the stranger
C21_Witness ==
    /\ probe.op = "turn"
    /\ \E i \in 1..Len(calls[1].initial_announcements) :
          calls[1].initial_announcements[i][1] = Stranger
    /\ \E i \in 1..Len(SentBy(events)) : SentBy(events)[i].to \notin DOMAIN policy_store
    /\ \E a \in DOMAIN policy_store : SentTo(SentBy(events), a) # <<>>

-----------------------------------------------------------------------------
(* policies.rs and simulation_engine/policy/policy_extensions: the extensions *)
(* beyond BGP, each called on its own                                         *)

\* ROVPolicy::default_validate (the same in PeerROVPolicy, in both files)
ROVPolicy_default_validate(ann, recv_relationship, asn) ==
    IF ann.as_path = <<>> /\ recv_relationship # Origin THEN FALSE
    ELSE IF Contains(ann.as_path, asn) THEN FALSE
    ELSE IF ann.as_path # <<>> /\ ann.as_path[1] # ann.next_hop_asn THEN FALSE
    ELSE TRUE

\* the validities get_roa_outcome can return
roa_validity(validator, ann) ==
    {outcome[1] : outcome \in get_roa_outcome(validator, ann.prefix, origin(ann))}

\* a ROV that accepts valid routes only
rov_valid_only(validator, ann, recv_relationship, asn) ==
    /\ ROVPolicy_default_validate(ann, recv_relationship, asn)
    /\ roa_validity(validator, ann) = {"Valid"}

\* policies.rs, ROVPolicy::validate_announcement
policies_ROVPolicy_validate_announcement(validator, ann, recv_relationship, asn) ==
    IF ~ROVPolicy_default_validate(ann, recv_relationship, asn) THEN FALSE
    ELSE \A validity \in roa_validity(validator, ann) :
            CASE validity = "Valid" -> TRUE
              [] validity = "Unknown" -> TRUE
              [] OTHER -> FALSE

\* policies.rs, PeerROVPolicy::validate_announcement
policies_PeerROVPolicy_validate_announcement(validator, ann, recv_relationship, asn) ==
    IF ~ROVPolicy_default_validate(ann, recv_relationship, asn) THEN FALSE
    ELSE \A validity \in roa_validity(validator, ann) :
            CASE validity = "Valid" -> TRUE
              [] validity = "Unknown" -> recv_relationship # Peers
              [] OTHER -> FALSE

\* policy_extensions/peer_rov.rs, PeerROVPolicy::validate_announcement
PeerROVPolicy_validate_announcement(validator, ann, recv_relationship, asn) ==
    IF ~ROVPolicy_default_validate(ann, recv_relationship, asn) THEN FALSE
    ELSE \A validity \in roa_validity(validator, ann) :
            CASE validity = "Valid" -> TRUE
              [] validity = "Unknown" -> FALSE
              [] OTHER -> FALSE

\* ProcessingResult and the announcement as process_announcement leaves it
Processed(ann, result) == [ann |-> ann, result |-> result]

\* policies.rs, OnlyToCustomersPolicy::process_announcement
policies_OnlyToCustomersPolicy_process_announcement(ann, recv_relationship) ==
    IF recv_relationship = Peers \/ recv_relationship = Providers
    THEN Processed([ann EXCEPT !.only_to_customers = Some(TRUE)], "Modified")
    ELSE Processed(ann, "Accept")

\* only_to_customers.rs, OnlyToCustomersPolicy::process_announcement
OnlyToCustomersPolicy_process_announcement(ann, recv_relationship) ==
    CASE recv_relationship \in {Peers, Providers} ->
            Processed([ann EXCEPT !.only_to_customers = Some(TRUE)], "Modified")
      [] OTHER -> Processed(ann, "Accept")

\* an export rule that does not read the mark
export_ignoring_mark(ann, recv_relationship, send_relationship) ==
    default_should_propagate(recv_relationship, send_relationship)

\* policies.rs, OnlyToCustomersPolicy::should_propagate
policies_OnlyToCustomersPolicy_should_propagate(ann, recv_relationship, send_relationship) ==
    IF (IF ann.only_to_customers = None THEN FALSE ELSE ann.only_to_customers[1])
    THEN send_relationship = Customers
    ELSE CASE recv_relationship = Origin -> TRUE
           [] recv_relationship = Customers -> TRUE
           [] recv_relationship = Peers /\ send_relationship = Customers -> TRUE
           [] recv_relationship = Providers /\ send_relationship = Customers -> TRUE
           [] OTHER -> FALSE

\* only_to_customers.rs, OnlyToCustomersPolicy::should_propagate
OnlyToCustomersPolicy_should_propagate(ann, recv_relationship, send_relationship) ==
    IF ann.only_to_customers = Some(TRUE)
    THEN send_relationship = Customers
    ELSE CASE recv_relationship = Origin -> TRUE
           [] recv_relationship = Customers -> TRUE
           [] recv_relationship = Peers /\ send_relationship = Customers -> TRUE
           [] recv_relationship = Providers /\ send_relationship = Customers -> TRUE
           [] OTHER -> FALSE

\* the neighbors of an AS, of every kind
NeighborsOf(g, asn) ==
    Range(g.customers[asn]) \cup Range(g.providers[asn]) \cup Range(g.peers[asn])

\* policies.rs, EnforceFirstASPolicy::validate_announcement
policies_EnforceFirstASPolicy_validate_announcement(g, ann, recv_relationship, asn) ==
    IF ann.as_path = <<>> /\ recv_relationship # Origin THEN FALSE
    ELSE IF Contains(ann.as_path, asn) THEN FALSE
    ELSE IF ann.as_path # <<>> /\ ann.as_path[1] # ann.next_hop_asn THEN FALSE
    ELSE ann.next_hop_asn \in NeighborsOf(g, asn)

\* enforce_first_as.rs, EnforceFirstASPolicy::validate_announcement
EnforceFirstASPolicy_validate_announcement(g, ann, recv_relationship, asn) ==
    IF ann.as_path = <<>> /\ recv_relationship # Origin THEN FALSE
    ELSE IF Contains(ann.as_path, asn) THEN FALSE
    ELSE IF ann.as_path # <<>>
         THEN IF ann.as_path[1] # ann.next_hop_asn THEN FALSE
              ELSE IF ann.as_path[1] \notin NeighborsOf(g, asn) THEN FALSE
              ELSE TRUE
         ELSE TRUE

\* a BGPsec validation that compares the paths only
bgpsec_paths_only(ann, recv_relationship, asn) ==
    IF ann.as_path = <<>> /\ recv_relationship # Origin THEN FALSE
    ELSE IF Contains(ann.as_path, asn) THEN FALSE
    ELSE ann.bgpsec_as_path # None => ann.bgpsec_as_path[1] = ann.as_path

\* BGPSecPolicy::validate_announcement (the same in policies.rs and bgpsec.rs)
BGPSecPolicy_validate_announcement(ann, recv_relationship, asn) ==
    IF ann.as_path = <<>> /\ recv_relationship # Origin THEN FALSE
    ELSE IF Contains(ann.as_path, asn) THEN FALSE
    ELSE IF ann.bgpsec_as_path # None
         THEN ann.bgpsec_next_asn = Some(asn) /\ ann.bgpsec_as_path[1] = ann.as_path
         ELSE TRUE

\* the announcements validated against ROAs: those of the victim, of the
\* attacker and of the sender itself, for the /24 and the /25, and some that
\* default validation rejects (a loop through AS 1, a first hop that is not the
\* next hop)
RovAnnInputs ==
    {Announcement_new_with_path(prefix, as_path, 2, Unknown) :
        prefix \in {P24, P25},
        as_path \in {<<>>, <<2>>, <<2, VICTIM>>, <<2, ATTACKER>>,
                     <<3, VICTIM>>, <<2, 1, VICTIM>>}}
    \cup {[Announcement_new_with_path(P24, <<2, VICTIM>>, 2, Unknown) EXCEPT !.withdraw = TRUE]}

\* policy.validate_announcement(&ann, recv_relationship, &as_obj, None) of a
\* ROVPolicy and a PeerROVPolicy whose validator holds the ROAs added
ValidateRov ==
    /\ probe = NoProbe
    /\ \E ann \in RovAnnInputs, recv_relationship \in Relationships :
         \E validity \in roa_validity(route_validator, ann) :
            probe' = [op |-> "rov", ann |-> ann, recv_relationship |-> recv_relationship,
                      asn |-> 1, validity |-> validity,
                      default |-> default_validate_announcement(ann, recv_relationship, 1),
                      rov |-> ROVPolicy_validate_announcement(
                                 [ROVPolicy_new EXCEPT !.route_validator = route_validator],
                                 ann, recv_relationship, 1),
                      policies_rov |-> policies_ROVPolicy_validate_announcement(
                                 route_validator, ann, recv_relationship, 1),
                      peer_rov |-> PeerROVPolicy_validate_announcement(
                                 route_validator, ann, recv_relationship, 1),
                      policies_peer_rov |-> policies_PeerROVPolicy_validate_announcement(
                                 route_validator, ann, recv_relationship, 1)]
    /\ ProbeOnly

\* the announcements marked: no mark, Some(true), Some(false)
OtcInputs ==
    {[Announcement_new_with_path(P24, <<2, VICTIM>>, 2, Unknown)
         EXCEPT !.only_to_customers = mark] : mark \in {None, Some(TRUE), Some(FALSE)}}

\* OnlyToCustomersPolicy: process_announcement(&mut ann, recv_relationship, &as_obj)
\* and should_propagate(&ann, recv_relationship, send_relationship)
OnlyToCustomers ==
    /\ probe = NoProbe
    /\ calls = <<>>
    /\ \E ann \in OtcInputs, recv_relationship \in Relationships,
          send_relationship \in Relationships :
         probe' = [op |-> "only_to_customers", ann |-> ann,
                   recv_relationship |-> recv_relationship,
                   send_relationship |-> send_relationship,
                   processed |-> OnlyToCustomersPolicy_process_announcement(ann, recv_relationship),
                   policies_processed |->
                       policies_OnlyToCustomersPolicy_process_announcement(ann, recv_relationship),
                   propagate |-> OnlyToCustomersPolicy_should_propagate(
                                     ann, recv_relationship, send_relationship),
                   policies_propagate |-> policies_OnlyToCustomersPolicy_should_propagate(
                                     ann, recv_relationship, send_relationship)]
    /\ ProbeOnly

\* the announcements AS 2 of the diamond receives: from its provider 1, its
\* peer 3, its customer 4 and from the victim, which is no neighbor; with a
\* path that starts at the sender, at another AS, runs through AS 2, or is empty
FirstAsInputs ==
    {Announcement_new_with_path(P24, as_path, next_hop_asn, Unknown) :
        next_hop_asn \in {1, 3, 4, VICTIM},
        as_path \in {<<>>, <<1>>, <<3, VICTIM>>, <<4>>, <<VICTIM>>, <<VICTIM, 1>>, <<4, 2>>}}

\* EnforceFirstASPolicy.validate_announcement(&ann, recv_relationship, &as_obj, None)
EnforceFirstAS ==
    /\ probe = NoProbe
    /\ calls = <<>>
    /\ \E ann \in FirstAsInputs, recv_relationship \in Relationships :
         probe' = [op |-> "enforce_first_as", ann |-> ann,
                   recv_relationship |-> recv_relationship, asn |-> 2,
                   default |-> default_validate_announcement(ann, recv_relationship, 2),
                   enforce |-> EnforceFirstASPolicy_validate_announcement(
                                   DiamondGraph, ann, recv_relationship, 2),
                   policies_enforce |-> policies_EnforceFirstASPolicy_validate_announcement(
                                   DiamondGraph, ann, recv_relationship, 2)]
    /\ ProbeOnly

\* the announcements with BGPsec fields: no secure path, the AS path, another
\* path, the empty path; signed for the receiver, for another AS, for nobody
BgpsecInputs ==
    {[Announcement_new_with_path(P24, as_path, 2, Unknown)
         EXCEPT !.bgpsec_as_path = bgpsec_as_path, !.bgpsec_next_asn = bgpsec_next_asn] :
        as_path \in {<<>>, <<2>>, <<2, VICTIM>>, <<2, 1>>, <<3, VICTIM>>},
        bgpsec_as_path \in {None, Some(<<>>), Some(<<2>>), Some(<<2, VICTIM>>),
                            Some(<<2, 1>>), Some(<<3, VICTIM>>)},
        bgpsec_next_asn \in {None, Some(1), Some(2)}}

\* BGPSecPolicy.validate_announcement(&ann, recv_relationship, &as_obj, None)
BgpsecValidate ==
    /\ probe = NoProbe
    /\ calls = <<>>
    /\ \E ann \in BgpsecInputs, recv_relationship \in Relationships :
         probe' = [op |-> "bgpsec", ann |-> ann,
                   recv_relationship |-> recv_relationship, asn |-> 1,
                   result |-> BGPSecPolicy_validate_announcement(ann, recv_relationship, 1)]
    /\ ProbeOnly

NextExt ==
    \/ AddRoa
    \/ ValidateRov
    \/ OnlyToCustomers
    \/ EnforceFirstAS
    \/ BgpsecValidate

SpecExt == InitPolicy /\ [][NextExt]_vars

C22_RejectWitness ==
    /\ probe.op = "rov"
    /\ probe.default
    /\ probe.validity = "InvalidLength"
    /\ ~probe.policies_rov

\* what PeerROV is to return
PeerRovRule ==
    /\ probe.default
    /\ \/ probe.validity = "Valid"
       \/ probe.validity = "Unknown" /\ probe.recv_relationship # Peers

C23_PoliciesPeerRov == probe.op = "rov" => probe.policies_peer_rov = PeerRovRule

C23_ExtensionPeerRov == probe.op = "rov" => probe.peer_rov = PeerRovRule

\* C23: PeerROV validate is ROV validate, except that an Unknown outcome is
\* rejected exactly when the route was received from a peer
C23_PeerRovValidate == C23_PoliciesPeerRov /\ C23_ExtensionPeerRov

\* C24: OnlyToCustomers marks an announcement (only_to_customers = Some(true),
\* Modified) exactly when it was received from a peer or a provider, and
\* otherwise accepts it as it is; a marked announcement is exported to
\* customers only, whatever it was received from, and an announcement without
\* the mark by the default export rule
C24_OnlyToCustomers ==
    probe.op = "only_to_customers" =>
        LET marking == probe.recv_relationship \in {Peers, Providers}
            rule(processed) ==
                IF marking
                THEN /\ processed.result = "Modified"
                     /\ processed.ann = [probe.ann EXCEPT !.only_to_customers = Some(TRUE)]
                ELSE /\ processed.result = "Accept"
                     /\ processed.ann = probe.ann
            export == IF probe.ann.only_to_customers = Some(TRUE)
                      THEN probe.send_relationship = Customers
                      ELSE default_should_propagate(probe.recv_relationship,
                                                    probe.send_relationship)
        IN /\ rule(probe.processed)
           /\ rule(probe.policies_processed)
           /\ probe.propagate = export
           /\ probe.policies_propagate = export

\* a marked announcement that came from a customer is not exported to a peer,
\* where the default rule would export it
C24_Witness ==
    /\ probe.op = "only_to_customers"
    /\ probe.ann.only_to_customers = Some(TRUE)
    /\ probe.recv_relationship = Customers
    /\ probe.send_relationship = Peers
    /\ ~probe.propagate
    /\ ~probe.policies_propagate
    /\ probe.processed.result = "Accept"

\* what EnforceFirstAS may accept
FirstAsRule(accepted) ==
    /\ accepted => /\ probe.default
                   /\ probe.ann.next_hop_asn \in NeighborsOf(DiamondGraph, probe.asn)
    /\ /\ probe.ann.as_path # <<>>
       /\ probe.ann.as_path[1] = probe.ann.next_hop_asn
       /\ probe.ann.next_hop_asn \notin NeighborsOf(DiamondGraph, probe.asn)
       => ~accepted

C25_PoliciesEnforceFirstAS ==
    probe.op = "enforce_first_as" => FirstAsRule(probe.policies_enforce)

C25_ExtensionEnforceFirstAS ==
    probe.op = "enforce_first_as" => FirstAsRule(probe.enforce)

\* C25: EnforceFirstAS accepts an announcement only if default validation
\* passes and next_hop_asn is a customer, peer or provider of the receiver; a
\* path that starts at a next hop that is no neighbor is rejected
C25_EnforceFirstAS == C25_PoliciesEnforceFirstAS /\ C25_ExtensionEnforceFirstAS

\* C26: BGPSec validate accepts exactly the announcements that pass the loop
\* and empty-path checks and, when bgpsec_as_path is present, have
\* bgpsec_next_asn = the receiver and bgpsec_as_path = as_path
C26_BgpsecValidate ==
    probe.op = "bgpsec" =>
        LET ann == probe.ann
            basic == /\ ~(ann.as_path = <<>> /\ probe.recv_relationship # Origin)
                     /\ ~Contains(ann.as_path, probe.asn)
        IN probe.result =
              (/\ basic
               /\ ann.bgpsec_as_path # None =>
                     /\ ann.bgpsec_next_asn = Some(probe.asn)
                     /\ ann.bgpsec_as_path[1] = ann.as_path)

\* an announcement whose secure path is its AS path is rejected because it is
\* signed for another AS
C26_Witness ==
    /\ probe.op = "bgpsec"
    /\ probe.ann.as_path = <<2, VICTIM>>
    /\ probe.ann.bgpsec_as_path = Some(probe.ann.as_path)
    /\ probe.ann.bgpsec_next_asn = Some(2)
    /\ probe.recv_relationship = Customers
    /\ ~probe.result

-----------------------------------------------------------------------------
(* simulation_framework/scenarios/legitimate_prefix_only.rs *)

LegitimatePrefixOnly_new(legitimate_origin_asns) ==
    [legitimate_origin_asns |-> legitimate_origin_asns]

\* get_seed_asn_ann_dict: 10.0.0.0/24 from every legitimate origin
LegitimatePrefixOnly_get_seed_asn_ann_dict(scenario) ==
    [a \in scenario.legitimate_origin_asns |->
        <<Announcement_new_with_path(P24, <<>>, a, Origin)>>]

\* get_roas: one ROA per legitimate origin, max length 24
LegitimatePrefixOnly_get_roas(scenario, order) ==
    LET asns == HashIter(scenario.legitimate_origin_asns, order)
    IN [i \in 1..Len(asns) |-> ROA_new(P24, asns[i], P24.len)]

\* setup_engine: the ROAs are added to the validator passed in, the seeds go
\* to engine.setup
LegitimatePrefixOnly_setup_engine(scenario, store, validator, g, order) ==
    LET seed_dict == LegitimatePrefixOnly_get_seed_asn_ann_dict(scenario)
        asns == HashIter(DOMAIN seed_dict, order.policy_store)
        initial_anns == Flatten([i \in 1..Len(asns) |->
                            [j \in 1..Len(seed_dict[asns[i]]) |->
                                <<asns[i], seed_dict[asns[i]][j]>>]])
        r == setup(store, g, initial_anns, order)
    IN [route_validator |-> add_roas(validator,
                                LegitimatePrefixOnly_get_roas(scenario, order.policy_store)),
        initial_anns |-> initial_anns,
        store |-> r.store,
        events |-> r.events]

\* the ASes that hold 10.0.0.0/24 in their local RIB
has_routes(store) == Cardinality({a \in DOMAIN store : P24 \in DOMAIN store[a].local_rib})

\* a success rule that asks for every AS
all_have_routes(store, g) == has_routes(store) = Cardinality(as_dict_keys(g))

\* is_successful: has_routes as f64 / total_ases as f64 > 0.8.  Both counts
\* are exact as f64 and the quotient is correctly rounded, so for counts of
\* this size the comparison with the literal 0.8 is that of the fractions; 0/0
\* is NaN, which is greater than nothing
LegitimatePrefixOnly_is_successful(store, g) ==
    LET total_ases == Cardinality(as_dict_keys(g))
    IN IF total_ases = 0 THEN FALSE
       ELSE 5 * has_routes(store) > 4 * total_ases

\* tier-1 AS 1 with customers 2 and 3; AS 4 customer of 2; AS 5 peer of 3
PeerLeafBuilders ==
    << ASBuilder(1, <<>>, <<>>, <<2, 3>>, TRUE),
       ASBuilder(2, <<>>, <<1>>, <<4>>, FALSE),
       ASBuilder(3, <<5>>, <<1>>, <<>>, FALSE),
       ASBuilder(4, <<>>, <<2>>, <<>>, FALSE),
       ASBuilder(5, <<3>>, <<>>, <<>>, FALSE) >>

InitLegit ==
    \E builders \in {PeerLeafBuilders, LinearBuilders}, o \in Orders :
      /\ as_graph = MakeGraph(builders, o)
      /\ hash_order = UniformOrder(o)
      /\ policy_store = SimulationEngine_new(as_graph)
      /\ route_validator = RouteValidator_new
      /\ phase = "providers"
      /\ idx = 1
      /\ round = 0
      /\ calls = <<>>
      /\ turns = <<>>
      /\ events = <<>>
      /\ probe = NoProbe

\* scenario.setup_engine(&mut engine, &mut route_validator)
SetupLegit ==
    /\ calls = <<>>
    /\ probe = NoProbe
    /\ \E a \in as_dict_keys(as_graph) :
         LET r == LegitimatePrefixOnly_setup_engine(LegitimatePrefixOnly_new({a}),
                      policy_store, route_validator, as_graph, hash_order)
         IN /\ policy_store' = r.store
            /\ route_validator' = r.route_validator
            /\ events' = r.events
            /\ calls' = <<[op |-> "setup_engine", initial_announcements |-> r.initial_anns]>>
    /\ Restart
    /\ UNCHANGED <<as_graph, hash_order, probe>>

TurnLegit(ph) == Turn(ph) /\ probe = NoProbe

TurnProvidersLegit == TurnLegit("providers")
TurnPeersLegit == TurnLegit("peers")
TurnCustomersLegit == TurnLegit("customers")

\* scenario.is_successful(&engine), on the new engine or between two rounds
IsSuccessful ==
    /\ probe = NoProbe
    /\ idx = 1
    /\ phase = "providers"
    /\ probe' = [op |-> "is_successful",
                 has_routes |-> has_routes(policy_store),
                 total_ases |-> Cardinality(as_dict_keys(as_graph)),
                 result |-> LegitimatePrefixOnly_is_successful(policy_store, as_graph)]
    /\ ProbeOnly

NextLegit ==
    \/ SetupLegit
    \/ TurnProvidersLegit
    \/ TurnPeersLegit
    \/ TurnCustomersLegit
    \/ IsSuccessful

SpecLegit == InitLegit /\ [][NextLegit]_vars

\* C27: LegitimatePrefixOnly.is_successful is true exactly when at least 80%
\* of the ASes of the graph hold the legitimate /24 in their local RIB
\* (5 * holders >= 4 * total), exactly 80% included
C27_LegitSuccess ==
    probe.op = "is_successful" =>
        probe.result = (5 * probe.has_routes >= 4 * probe.total_ases)

\* is_successful is true exactly when more than 80% of the ASes hold the /24
C27_MoreThanFourFifths ==
    probe.op = "is_successful" =>
        probe.result = (5 * probe.has_routes > 4 * probe.total_ases)

-----------------------------------------------------------------------------
(* The local RIB and the RIBs-in of the running engine *)

\* the best non-withdrawn RIBs-in entry of an AS for a prefix
BestOf(a, p) == get_best_ann_for_prefix(policy_store[a], p, as_graph, hash_order.ribs_in)

\* C28: whenever the local RIB of an AS holds a prefix, its RIBs-in hold a
\* non-withdrawn entry for the prefix that compare ranks best, and the local
\* RIB entry is that announcement; in every reachable state, origins included
C28_LocalRibFromRibsIn ==
    \A a \in DOMAIN policy_store : \A p \in DOMAIN policy_store[a].local_rib :
        /\ BestOf(a, p) # None
        /\ policy_store[a].local_rib[p] = BestOf(a, p)[1]

\* the same for the routes an AS has learned: the RIBs-in hold a best entry,
\* and the local RIB entry is that entry with the AS's own ASN in front
C28_LearnedRoutesOnly ==
    \A a \in DOMAIN policy_store : \A p \in DOMAIN policy_store[a].local_rib :
        policy_store[a].local_rib[p].recv_relationship # Origin =>
            /\ BestOf(a, p) # None
            /\ RemoveOwn(policy_store[a].local_rib[p], a) = BestOf(a, p)[1]

-----------------------------------------------------------------------------
(* Policy::get_best_ann_for_prefix on its own: AS 2 of the diamond (provider  *)
(* 1, peer 3, customer 4) with RIBs-in from its neighbors and from the        *)
(* victim, which is no neighbor                                               *)

\* what a neighbor has in the RIBs-in: nothing, a route of one or two hops, or
\* a withdrawal
RibsInEntries(n) ==
    {None,
     Some(Announcement_new_with_path(P24, <<n>>, n, Unknown)),
     Some(Announcement_new_with_path(P24, <<n, VICTIM>>, n, Unknown)),
     Some([Announcement_new_with_path(P24, <<n>>, n, Unknown) EXCEPT !.withdraw = TRUE])}

BestNeighbors == {1, 3, 4, VICTIM}

\* the RIBs-in of an AS: per neighbor the entry for 10.0.0.0/24, and for AS 4
\* a route for the /25 as well
RibsInOf(entry, other) ==
    [n \in {m \in BestNeighbors : entry[m] # None \/ (m = 4 /\ other)} |->
        LET for24 == IF entry[n] = None THEN EmptyMap
                     ELSE MapPut(EmptyMap, P24, entry[n][1])
        IN IF n = 4 /\ other
           THEN MapPut(for24, P25, Announcement_new_with_path(P25, <<4>>, 4, Unknown))
           ELSE for24]

\* policy.get_best_ann_for_prefix(&prefix, as_obj), with ribs_in.values()
\* coming in either order
GetBest ==
    /\ probe = NoProbe
    /\ \E entry \in [BestNeighbors -> UNION {RibsInEntries(n) : n \in BestNeighbors}],
          other \in BOOLEAN :
         /\ \A n \in BestNeighbors : entry[n] \in RibsInEntries(n)
         /\ LET policy == [Policy_new(2) EXCEPT !.ribs_in = RibsInOf(entry, other)]
            IN probe' = [op |-> "get_best_ann_for_prefix", ribs_in |-> policy.ribs_in,
                         asc |-> get_best_ann_for_prefix(policy, P24, DiamondGraph, "asc"),
                         desc |-> get_best_ann_for_prefix(policy, P24, DiamondGraph, "desc")]
    /\ ProbeOnly

NextBest == GetBest

SpecBest == InitPolicy /\ [][NextBest]_vars

\* the relationship of AS 2 to a next hop, read from the edge sets
EdgeKind(n) ==
    CASE n \in Range(DiamondGraph.customers[2]) -> Customers
      [] n \in Range(DiamondGraph.peers[2]) -> Peers
      [] n \in Range(DiamondGraph.providers[2]) -> Providers
      [] OTHER -> Unknown

\* the non-withdrawn RIBs-in entries for 10.0.0.0/24
CandidatesIn(ribs_in) ==
    {ribs_in[n][P24] : n \in {m \in DOMAIN ribs_in :
                                /\ P24 \in DOMAIN ribs_in[m]
                                /\ ~ribs_in[m][P24].withdraw}}

\* C29: get_best_ann_for_prefix returns nothing exactly when the RIBs-in hold
\* no non-withdrawn entry for the prefix; otherwise it returns the candidate
\* that compares better than every other non-withdrawn entry for the prefix,
\* the relationship of each candidate read from the edge sets by its
\* next_hop_asn; the result is the same for either iteration order
C29_BestAnn ==
    probe.op = "get_best_ann_for_prefix" =>
        LET candidates == CandidatesIn(probe.ribs_in)
        IN /\ (probe.asc = None) = (candidates = {})
           /\ probe.asc # None =>
                 /\ probe.asc[1] \in candidates
                 /\ \A c \in candidates \ {probe.asc[1]} :
                       compare_announcements(probe.asc[1], c,
                           EdgeKind(probe.asc[1].next_hop_asn),
                           EdgeKind(c.next_hop_asn)) = "Less"
           /\ probe.desc = probe.asc

\* the best of three candidates, next to a withdrawal and a route for another
\* prefix, is the customer's although its path is the longest
C29_Witness ==
    /\ probe.op = "get_best_ann_for_prefix"
    /\ Cardinality(CandidatesIn(probe.ribs_in)) = 3
    /\ \E n \in DOMAIN probe.ribs_in :
          P24 \in DOMAIN probe.ribs_in[n] /\ probe.ribs_in[n][P24].withdraw
    /\ P25 \in DOMAIN probe.ribs_in[4]
    /\ probe.asc # None
    /\ probe.asc[1].next_hop_asn = 4
    /\ Len(probe.asc[1].as_path) = 2
    /\ \E c \in CandidatesIn(probe.ribs_in) : Len(c.as_path) = 1

-----------------------------------------------------------------------------
(* A withdrawal in the running engine: after a run with one origin, a         *)
(* neighbor's withdrawal of the route is put into the receive queue of an AS  *)
(* (Policy::receive_ann), and the engine runs again                           *)

InitWithdraw == Init /\ as_graph \in {LinearGraph, DiamondGraph}

\* the withdrawal a neighbor sends for the route it had sent
WithdrawalFrom(ann) == [ann EXCEPT !.withdraw = TRUE]

\* policy.receive_ann(withdrawal, recv_relationship) at an AS that has the
\* neighbor's route in its RIBs-in
ReceiveWithdrawal ==
    /\ round = MaxRounds
    /\ SingleOrigin
    /\ \E asn \in DOMAIN policy_store :
         \E n \in DOMAIN policy_store[asn].ribs_in :
            /\ P24 \in DOMAIN policy_store[asn].ribs_in[n]
            /\ LET ann == WithdrawalFrom(policy_store[asn].ribs_in[n][P24])
               IN /\ policy_store' = [policy_store EXCEPT
                                        ![asn] = receive_ann(@, ann, ann.recv_relationship)]
                  /\ calls' = Append(calls, [op |-> "receive_ann", asn |-> asn, ann |-> ann])
    /\ events' = <<>>
    /\ Restart
    /\ UNCHANGED <<as_graph, hash_order, route_validator, probe>>

NextWithdraw ==
    \/ Setup
    \/ ReceiveWithdrawal
    \/ TurnProviders
    \/ TurnPeers
    \/ TurnCustomers

SpecWithdraw == InitWithdraw /\ [][NextWithdraw]_vars

\* the events of the last turn in which a valid withdrawal was processed and
\* after which the turn processed nothing else for the prefix
WithdrawalsProcessed ==
    {i \in 1..Len(events) :
        /\ events[i].ann.withdraw
        /\ events[i].is_valid
        /\ \A j \in (i + 1)..Len(events) :
              ~(events[j].is_valid /\ events[j].ann.prefix = events[i].ann.prefix)}

\* an AS has a neighbor
HasNeighbors(asn) == NeighborsOf(as_graph, asn) # {}

\* C30: when an AS processes a withdrawal and no non-withdrawn RIBs-in entry
\* for the prefix remains, the prefix leaves its local RIB and a withdrawal
\* with as_path = [own ASN] is enqueued to its neighbors; when a candidate
\* remains, the local RIB holds the best remaining candidate
C30_WithdrawalProcessing ==
    \A i \in WithdrawalsProcessed :
        LET e == events[i]
            policy == policy_store[e.asn]
        IN IF e.best = None
           THEN /\ e.ann.prefix \notin DOMAIN policy.local_rib
                /\ HasNeighbors(e.asn) => e.sent # <<>>
                /\ \A k \in 1..Len(e.sent) :
                      /\ e.sent[k].ann.withdraw
                      /\ e.sent[k].ann.as_path = <<e.asn>>
           ELSE /\ e.ann.prefix \in DOMAIN policy.local_rib
                /\ policy.local_rib[e.ann.prefix] = e.best[1]

\* when a candidate remains after a withdrawal, the local RIB holds the best
\* remaining candidate
C30_SwitchToRemaining ==
    \A i \in WithdrawalsProcessed :
        events[i].best # None =>
            /\ events[i].ann.prefix \in DOMAIN policy_store[events[i].asn].local_rib
            /\ policy_store[events[i].asn].local_rib[events[i].ann.prefix] = events[i].best[1]

-----------------------------------------------------------------------------
(* The same withdrawal delivered twice: after a run with one origin the       *)
(* engine is cloned; one engine gets a neighbor's withdrawal once, its clone  *)
(* gets it twice (Policy::receive_ann), and both run the same rounds          *)

SetupOneEngine == Setup /\ probe = NoProbe

\* receive_ann(withdrawal) at an AS of the engine, and twice at the same AS of
\* its clone
ReceiveWithdrawalTwice ==
    /\ round = MaxRounds
    /\ SingleOrigin
    /\ probe = NoProbe
    /\ \E asn \in DOMAIN policy_store :
         \E n \in DOMAIN policy_store[asn].ribs_in :
            /\ P24 \in DOMAIN policy_store[asn].ribs_in[n]
            /\ LET ann == WithdrawalFrom(policy_store[asn].ribs_in[n][P24])
                   once == receive_ann(policy_store[asn], ann, ann.recv_relationship)
               IN /\ policy_store' = [policy_store EXCEPT ![asn] = once]
                  /\ probe' = [op |-> "twice",
                               store |-> [policy_store EXCEPT
                                   ![asn] = receive_ann(once, ann, ann.recv_relationship)]]
                  /\ calls' = Append(calls, [op |-> "receive_ann", asn |-> asn, ann |-> ann])
    /\ events' = <<>>
    /\ Restart
    /\ UNCHANGED <<as_graph, hash_order, route_validator>>

\* one AS's turn in the engine and, once the clone exists, the same AS's turn
\* in the clone
TurnBothEngines(ph) ==
    /\ probe # NoProbe =>
         \A a \in DOMAIN probe.store : Len(probe.store[a].recv_q) <= MaxQueue
    /\ TurnStep(ph)
    /\ probe' = IF probe = NoProbe
                THEN NoProbe
                ELSE [probe EXCEPT !.store =
                        process_asn(@, as_graph,
                                    PhaseOrder(as_graph, ph, hash_order)[idx],
                                    hash_order).store]

NextTwice ==
    \/ SetupOneEngine
    \/ ReceiveWithdrawalTwice
    \/ TurnBothEngines("providers")
    \/ TurnBothEngines("peers")
    \/ TurnBothEngines("customers")

SpecTwice == InitWithdraw /\ [][NextTwice]_vars

\* both engines have run MaxRounds rounds since the withdrawal was delivered
BothRunsOver == probe # NoProbe /\ round = MaxRounds

\* C31: withdrawal idempotence: delivering the same withdrawal (same neighbor,
\* same prefix) to an AS twice and running the engine yields the same final
\* local_rib and ribs_in at every AS as delivering it once
C31_WithdrawalIdempotence ==
    BothRunsOver =>
        \A a \in DOMAIN policy_store :
            /\ probe.store[a].local_rib = policy_store[a].local_rib
            /\ probe.store[a].ribs_in = policy_store[a].ribs_in

\* a withdrawal was delivered to an AS that had another candidate: after the
\* runs the RIBs-in of the AS holds the withdrawal, in the engine and in its
\* clone, and its local RIB has switched to another neighbor's route
C31_Witness ==
    /\ BothRunsOver
    /\ LET w == calls[2]
           policy == policy_store[w.asn]
       IN /\ policy.ribs_in[w.ann.next_hop_asn][P24].withdraw
          /\ P24 \in DOMAIN policy.local_rib
          /\ policy.local_rib[P24].as_path[2] # w.ann.next_hop_asn
          /\ probe.store[w.asn].ribs_in[w.ann.next_hop_asn][P24].withdraw

-----------------------------------------------------------------------------
(* route_validator.rs: the LRU cache of get_roa_outcome.  add_roa takes       *)
(* &mut self, so it runs when no lookup is in progress; get_roa_outcome takes *)
(* &self and may run in several threads, each cache access under the mutex    *)

\* entries the cache holds (LruCache::new(10_000) in the source)
CacheCapacity == 2

\* LruCache::get: the entry found becomes the most recently used
LruCache_get(cache, key) ==
    LET hits == {i \in 1..Len(cache) : cache[i].key = key}
    IN IF hits = {} THEN [cache |-> cache, value |-> None]
       ELSE LET i == CHOOSE i \in hits : TRUE
            IN [cache |-> <<cache[i]>> \o SelectSeq(cache, LAMBDA e : e.key # key),
                value |-> Some(cache[i].value)]

\* LruCache::put: the entry becomes the most recently used; a full cache drops
\* the least recently used entry
LruCache_put(cache, key, value) ==
    LET others == SelectSeq(cache, LAMBDA e : e.key # key)
        kept == IF Len(others) >= CacheCapacity
                THEN SubSeq(others, 1, CacheCapacity - 1) ELSE others
    IN <<[key |-> key, value |-> value]>> \o kept

Threads == {"t1", "t2"}

CacheRoas ==
    {ROA_new(P24, VICTIM, P24.len), ROA_new(P24, VICTIM, P25.len), ROA_new(P8, VICTIM, P24.len)}

CacheKeys == {<<P24, VICTIM>>, <<P24, ATTACKER>>, <<P25, VICTIM>>, <<Q24, VICTIM>>}

NotCalling == [pc |-> "idle"]

InitCache == InitRoa

\* the lookups in progress, one per thread
Lookups == IF probe = NoProbe THEN [t \in Threads |-> NotCalling] ELSE probe.threads

SetLookup(t, rec) ==
    probe' = [op |-> "get_roa_outcome", threads |-> [Lookups EXCEPT ![t] = rec]]

CacheOnly == UNCHANGED <<as_graph, hash_order, policy_store, phase, idx, round, turns, events>>

\* validator.add_roa(roa): the exclusive borrow
AddRoaExclusive ==
    /\ \A t \in Threads : Lookups[t] = NotCalling
    /\ Len(calls) < MaxRoas
    /\ \E roa \in CacheRoas :
         /\ route_validator' = add_roa(route_validator, roa)
         /\ calls' = Append(calls, [op |-> "add_roa", roa |-> roa])
    /\ UNCHANGED probe
    /\ CacheOnly

\* get_roa_outcome, "Check cache first": lock, get, and return on a hit
CheckCache(t) ==
    /\ Lookups[t] = NotCalling
    /\ \E key \in CacheKeys :
         LET r == LruCache_get(route_validator.cache, key)
         IN /\ route_validator' = [route_validator EXCEPT !.cache = r.cache]
            /\ IF r.value # None
               THEN SetLookup(t, [pc |-> "returned", key |-> key, result |-> r.value[1],
                                  hit |-> TRUE])
               ELSE SetLookup(t, [pc |-> "miss", key |-> key])
    /\ UNCHANGED calls
    /\ CacheOnly

\* get_roa_outcome after a miss: the outcome computed from the trie, then
\* lock and put
ComputeAndPut(t) ==
    /\ Lookups[t].pc = "miss"
    /\ LET key == Lookups[t].key
       IN \E result \in get_roa_outcome(route_validator, key[1], key[2]) :
            /\ route_validator' = [route_validator EXCEPT
                                     !.cache = LruCache_put(@, key, result)]
            /\ SetLookup(t, [pc |-> "returned", key |-> key, result |-> result,
                             hit |-> FALSE])
    /\ UNCHANGED calls
    /\ CacheOnly

\* the caller has the result: the shared borrow ends
Return(t) ==
    /\ Lookups[t].pc = "returned"
    /\ SetLookup(t, NotCalling)
    /\ UNCHANGED <<route_validator, calls>>
    /\ CacheOnly

NextCache ==
    \/ AddRoaExclusive
    \/ \E t \in Threads : CheckCache(t)
    \/ \E t \in Threads : ComputeAndPut(t)
    \/ \E t \in Threads : Return(t)

SpecCache == InitCache /\ [][NextCache]_vars

\* C32: the validator cache is transparent: for any interleaving of add_roa
\* calls and get_roa_outcome calls (lookups possibly issued by several
\* threads, each cache access taken under the mutex, with capacity-bounded LRU
\* eviction), every get_roa_outcome returns the value determined by the ROAs
\* added before it and never a value cached before a later add_roa
C32_CacheTransparent ==
    /\ \A t \in Threads :
          Lookups[t].pc = "returned" =>
              Lookups[t].result \in
                  get_roa_outcome(route_validator, Lookups[t].key[1], Lookups[t].key[2])
    /\ \A i \in 1..Len(route_validator.cache) :
          route_validator.cache[i].value \in
              get_roa_outcome(route_validator, route_validator.cache[i].key[1],
                              route_validator.cache[i].key[2])
    /\ Len(route_validator.cache) <= CacheCapacity

\* after a second add_roa one thread returns a cached outcome that the key
\* did not have before that add_roa, while the other thread has missed and the
\* cache is full
C32_Witness ==
    /\ Len(calls) = 2
    /\ Len(route_validator.cache) = CacheCapacity
    /\ \E t \in Threads, u \in Threads :
          /\ Lookups[t].pc = "returned"
          /\ Lookups[t].hit
          /\ Lookups[t].result \notin
                get_roa_outcome(add_roa(RouteValidator_new, calls[1].roa),
                                Lookups[t].key[1], Lookups[t].key[2])
          /\ Lookups[u].pc = "miss"

-----------------------------------------------------------------------------
(* The receive queue in a turn *)

\* the step is one AS's turn
TurnTaken == Len(turns') = Len(turns) + 1

\* C33: within one AS's turn the announcements are processed in the order in
\* which they arrived in recv_q, the recv_q of that AS is empty when its turn
\* ends, and an announcement that arrives after the turn started draining is
\* not processed before that AS's next turn.  Of every turn: what it processed
\* is the queue of before the turn, entry by entry; its queue is empty after
\* it; what it sent stands behind what the receivers' queues held.
C33_FifoDrain ==
    [][TurnTaken =>
        LET asn == turns'[Len(turns')].asn
            q == policy_store[asn].recv_q
        IN /\ Len(events') = Len(q)
           /\ \A i \in 1..Len(q) :
                 /\ events'[i].asn = asn
                 /\ events'[i].ann = q[i].ann
                 /\ events'[i].recv_relationship = q[i].recv_relationship
           /\ policy_store'[asn].recv_q = <<>>
           /\ \A b \in DOMAIN policy_store \ {asn} :
                 policy_store'[b].recv_q =
                    policy_store[b].recv_q \o SentTo(SentBy(events'), b)]_vars

\* a turn has processed two different announcements, the first of them from a
\* customer and the second from a provider, and a neighbor's queue holds what
\* the turn sent
C33_Witness ==
    /\ turns # <<>>
    /\ Len(events) >= 2
    /\ events[1].asn = turns[Len(turns)].asn
    /\ events[1].ann # events[2].ann
    /\ events[1].recv_relationship # events[2].recv_relationship
    /\ policy_store[events[1].asn].recv_q = <<>>
    /\ \E b \in DOMAIN policy_store : policy_store[b].recv_q # <<>>

-----------------------------------------------------------------------------
(* What an AS enqueues to its neighbors: the engine's turns, and              *)
(* Policy::propagate_to_neighbors called for one AS of the diamond            *)

\* Policy::propagate_to_neighbors: the policy with its ribs_out, the store with
\* the neighbors' queues, and what was sent
Policy_propagate_to_neighbors(policy, ann, rel, g, store) ==
    LET neighbors == get_neighbors(g, policy.asn, rel)
        sent == [i \in 1..Len(neighbors) |->
                   [from |-> policy.asn,
                    to |-> neighbors[i],
                    rel |-> rel,
                    recv_rel |-> rel,
                    ann |-> copy_and_process(ann, policy.asn, rel)]]
    IN [policy |-> [policy EXCEPT !.ribs_out = UpdateRibsOut(@, sent)],
        store |-> Deliver(store, sent),
        sent |-> sent]

\* policy.propagate_to_neighbors(&ann, rel, as_obj, as_graph, &mut policy_store)
\* for the policy of an AS of the diamond and the store of the other ASes
PropagateToNeighbors ==
    /\ probe = NoProbe
    /\ \E asn \in as_dict_keys(DiamondGraph), ann \in AnnInputs, rel \in Range(AllRels) :
         probe' = [op |-> "propagate_to_neighbors", asn |-> asn, ann |-> ann, rel |-> rel,
                   result |-> Policy_propagate_to_neighbors(
                                  Policy_new(asn), ann, rel, DiamondGraph,
                                  StoreWithout(DiamondGraph, {asn}))]
    /\ ProbeOnly

NextPropagate == PropagateToNeighbors

SpecPropagate == InitPolicy /\ [][NextPropagate]_vars

\* the pair (ann, recv_rel) was enqueued by AS x to a neighbor over the send
\* relationship rel
EnqueuedAsClaimed(x, rel, ann, recv_rel) ==
    /\ ann.next_hop_asn = x
    /\ ann.as_path # <<>>
    /\ ann.as_path[1] = x
    /\ recv_rel = invert(rel)
    /\ ann.recv_relationship = invert(rel)

\* the engine: in every receive queue each pair names its sender as next hop
\* and first hop, and carries, twice, the relationship in which the receiver
\* holds the sender
C34_EngineEnqueue ==
    /\ \A n \in DOMAIN policy_store :
          \A i \in 1..Len(policy_store[n].recv_q) :
             LET e == policy_store[n].recv_q[i]
                 x == e.ann.next_hop_asn
             IN /\ get_relationship(as_graph, n, x) = e.recv_relationship
                /\ EnqueuedAsClaimed(x, invert(e.recv_relationship), e.ann, e.recv_relationship)
    /\ \A i \in 1..Len(events) :
          \A k \in 1..Len(events[i].sent) :
             LET s == events[i].sent[k]
             IN /\ EnqueuedAsClaimed(s.from, s.rel, s.ann, s.recv_rel)
                /\ s.to \in Range(get_neighbors(as_graph, s.from, s.rel))

\* C34: every (announcement, recv_relationship) pair that an AS X enqueues to
\* a neighbor N over send relationship r has next_hop_asn = X, as_path[0] = X,
\* and both the pair's recv_relationship and the announcement's
\* recv_relationship equal to the inverse of r (Providers <-> Customers,
\* Peers <-> Peers), so that on a symmetric graph it equals the relationship
\* in which N holds X.  Here for Policy::propagate_to_neighbors and an
\* announcement that is no withdrawal.
C34_EnqueuedPairs ==
    probe # NoProbe /\ probe.op = "propagate_to_neighbors" /\ ~probe.ann.withdraw =>
        \A k \in 1..Len(probe.result.sent) :
           LET s == probe.result.sent[k]
               q == probe.result.store[s.to].recv_q
           IN /\ q # <<>>
              /\ EnqueuedAsClaimed(probe.asn, probe.rel, q[Len(q)].ann,
                                   q[Len(q)].recv_relationship)
              /\ get_relationship(DiamondGraph, s.to, probe.asn) = q[Len(q)].recv_relationship

\* what propagate_to_neighbors does keep: next hop and first hop are the
\* sender, and over a peering the relationship is the one claimed
C34_NextHopAndPeers ==
    probe # NoProbe /\ probe.op = "propagate_to_neighbors" /\ ~probe.ann.withdraw =>
        \A k \in 1..Len(probe.result.sent) :
           LET s == probe.result.sent[k]
               q == probe.result.store[s.to].recv_q
           IN /\ q[Len(q)].ann.next_hop_asn = probe.asn
              /\ q[Len(q)].ann.as_path[1] = probe.asn
              /\ q[Len(q)].recv_relationship = q[Len(q)].ann.recv_relationship
              /\ probe.rel = Peers =>
                    EnqueuedAsClaimed(probe.asn, probe.rel, q[Len(q)].ann,
                                      q[Len(q)].recv_relationship)

-----------------------------------------------------------------------------
(* ribs_out against what was enqueued *)

\* what the last step (setup or a turn) enqueued, in order
LastSent == SentBy(events)

\* the RIBs-out of the sender holds the announcement of the send
Mirrored(s) ==
    LET ribs_out == policy_store[s.from].ribs_out
    IN /\ s.to \in DOMAIN ribs_out
       /\ s.ann.prefix \in DOMAIN ribs_out[s.to]
       /\ ribs_out[s.to][s.ann.prefix] = s.ann

\* the send is the last of the step from its sender to its receiver for its prefix
MostRecent(k) ==
    \A j \in (k + 1)..Len(LastSent) :
        ~(/\ LastSent[j].from = LastSent[k].from
          /\ LastSent[j].to = LastSent[k].to
          /\ LastSent[j].ann.prefix = LastSent[k].ann.prefix)

\* C35: ribs_out mirrors what was sent: in every state reached after setup,
\* for every AS X, neighbor N and prefix p, X.ribs_out[N][p] exists exactly
\* when X has enqueued an announcement for p to N since setup (the initial
\* propagation of seeds included), and it equals the most recent such
\* announcement.  Stated of what the last step enqueued, and of the state
\* after setup, where nothing else has been enqueued.
C35_RibsOutMirror ==
    /\ \A k \in 1..Len(LastSent) : MostRecent(k) => Mirrored(LastSent[k])
    /\ calls # <<>> /\ turns = <<>> /\ Len(calls) = 1 =>
          \A x \in DOMAIN policy_store : \A n \in DOMAIN policy_store[x].ribs_out :
             \A p \in DOMAIN policy_store[x].ribs_out[n] :
                \E k \in 1..Len(LastSent) :
                   /\ LastSent[k].from = x
                   /\ LastSent[k].to = n
                   /\ LastSent[k].ann.prefix = p

\* the turns do mirror: after a turn ribs_out holds the most recent
\* announcement the turn enqueued to each neighbor for each prefix, and a turn
\* changes the ribs_out of the AS whose turn it is only where it has enqueued
C35_TurnsMirror ==
    [][TurnTaken =>
         /\ \A k \in 1..Len(SentBy(events')) :
               LET s == SentBy(events')[k]
               IN (\A j \in (k + 1)..Len(SentBy(events')) :
                      ~(/\ SentBy(events')[j].to = s.to
                        /\ SentBy(events')[j].ann.prefix = s.ann.prefix))
                  => policy_store'[s.from].ribs_out[s.to][s.ann.prefix] = s.ann
         /\ \A x \in DOMAIN policy_store :
               \A n \in DOMAIN policy_store'[x].ribs_out :
                  \A p \in DOMAIN policy_store'[x].ribs_out[n] :
                     \/ /\ n \in DOMAIN policy_store[x].ribs_out
                        /\ p \in DOMAIN policy_store[x].ribs_out[n]
                        /\ policy_store'[x].ribs_out[n][p] = policy_store[x].ribs_out[n][p]
                     \/ \E k \in 1..Len(SentBy(events')) :
                           /\ SentBy(events')[k].from = x
                           /\ SentBy(events')[k].to = n
                           /\ SentBy(events')[k].ann.prefix = p]_vars

-----------------------------------------------------------------------------
(* Rounds without end: engine.run with ever more rounds after one setup.  The *)
(* turns are not recorded; at the start of some round the policy store is     *)
(* noted, and the rounds after it are counted, so that a round that leaves    *)
(* the engine where an earlier round left it is seen                          *)

\* a round is about to start
RoundStart == calls # <<>> /\ idx = 1 /\ phase = "providers"

\* one AS's turn in the phase ph of some round of propagate_round
TurnOfSomeRound(ph) ==
    /\ calls # <<>>
    /\ \A a \in DOMAIN policy_store : Len(policy_store[a].recv_q) <= MaxQueue
    /\ round < MaxRounds
    /\ phase = ph
    /\ LET asns == PhaseOrder(as_graph, ph, hash_order)
           r == process_asn(policy_store, as_graph, asns[idx], hash_order)
       IN /\ policy_store' = r.store
          /\ events' = r.events
          /\ IF idx < Len(asns)
             THEN /\ idx' = idx + 1
                  /\ phase' = ph
                  /\ round' = round
             ELSE /\ idx' = 1
                  /\ phase' = NextPhase(ph)
                  /\ round' = IF ph = "customers" /\ probe # NoProbe
                              THEN round + 1 ELSE round
    /\ UNCHANGED <<as_graph, hash_order, route_validator, calls, turns, probe>>

\* engine.setup(initial_announcements) on the new engine
SetupOnce == Setup /\ calls = <<>>

\* the policy store at the start of a round is noted
NoteRoundStart ==
    /\ RoundStart
    /\ probe = NoProbe
    /\ probe' = [op |-> "round_start", store |-> policy_store]
    /\ ProbeOnly

NextRounds ==
    \/ SetupOnce
    \/ NoteRoundStart
    \/ TurnOfSomeRound("providers")
    \/ TurnOfSomeRound("peers")
    \/ TurnOfSomeRound("customers")

SpecRounds == InitWithdraw /\ [][NextRounds]_vars

\* every receive queue is empty
Quiescent == \A a \in DOMAIN policy_store : policy_store[a].recv_q = <<>>

\* one or more rounds have led the engine back to the state noted
BackAtRoundStart ==
    /\ RoundStart
    /\ probe # NoProbe
    /\ round > 0
    /\ policy_store = probe.store

\* C36: quiescence: with default (BGP) policies on an acyclic symmetric graph
\* and a finite seed list, repeated rounds eventually reach a state in which
\* every recv_q is empty, after which a further round delivers no announcement
\* and changes no local_rib, ribs_in or ribs_out.  Rounds that lead the engine
\* back to the state they started from repeat for ever, so the claim requires
\* of every such state that every recv_q is empty.
C36_Quiescence == BackAtRoundStart => Quiescent

\* a turn taken with every queue empty changes nothing
C36_QuietStaysQuiet ==
    [][Quiescent /\ calls # <<>> =>
          /\ policy_store' = policy_store
          /\ events' = <<>>]_vars

\* some run does come to rest
C36_SomeRunQuiescent == ~(BackAtRoundStart /\ Quiescent)

-----------------------------------------------------------------------------
(* The seeded route of an origin *)

\* the local-RIB entry that seed_ann wrote at the AS for the seed
SeededEntry(asn, ann) == seed_ann(Policy_new(asn), ann).local_rib[ann.prefix]

\* the seeds of the setup that put a route into a local RIB
RouteSeeds ==
    {seed \in Range(calls[1].initial_announcements) :
        ~seed[2].withdraw /\ seed[1] \in DOMAIN policy_store}

\* C37: an origin AS keeps its own route: once an announcement for prefix p
\* has been seeded at AS X, no announcement for p received from a neighbor in
\* any later round replaces the seeded entry in X's local_rib (for instance
\* when a second AS originates the same prefix)
C37_OriginKeepsRoute ==
    Len(calls) = 1 =>
        \A seed \in RouteSeeds :
            /\ seed[2].prefix \in DOMAIN policy_store[seed[1]].local_rib
            /\ policy_store[seed[1]].local_rib[seed[2].prefix] = SeededEntry(seed[1], seed[2])

\* an origin that is the only one of its prefix keeps its route
C37_OnlyOriginKeepsRoute ==
    Len(calls) = 1 =>
        \A seed \in RouteSeeds :
            (\A other \in RouteSeeds : other[2].prefix = seed[2].prefix => other = seed)
            /\ seed[2].as_path = <<>>
            => /\ seed[2].prefix \in DOMAIN policy_store[seed[1]].local_rib
               /\ policy_store[seed[1]].local_rib[seed[2].prefix]
                     = SeededEntry(seed[1], seed[2])

-----------------------------------------------------------------------------
(* Valley-free paths *)

\* the hop of a stored path from as_path[i + 1] to as_path[i], named by the
\* relationship in which the receiver as_path[i] holds the sender: Customers
\* for a customer-to-provider hop, Peers for a peer hop, Providers for a
\* provider-to-customer hop, Unknown where the graph has no such edge
HopKind(as_path, i) == get_relationship(as_graph, as_path[i], as_path[i + 1])

\* (customer-to-provider)* (peer-to-peer)? (provider-to-customer)*, read from
\* the origin at the end of the path to the holder at its front: after a hop
\* that is not customer-to-provider every hop is provider-to-customer
ValleyFree(as_path) ==
    /\ \A i \in 1..(Len(as_path) - 1) : HopKind(as_path, i) \in {Customers, Peers, Providers}
    /\ \A i \in 1..(Len(as_path) - 1) : \A j \in (i + 1)..(Len(as_path) - 1) :
          HopKind(as_path, j) # Customers => HopKind(as_path, i) = Providers
    /\ \A i \in 1..Len(as_path) : \A j \in 1..Len(as_path) :
          as_path[i] = as_path[j] => i = j

\* every seed of the setup has an empty path
EmptyPathSeeds ==
    /\ calls # <<>>
    /\ \A seed \in Range(calls[1].initial_announcements) : seed[2].as_path = <<>>

\* C38: with default (BGP) policies on an acyclic symmetric graph and
\* announcements seeded with an empty path, every as_path stored in any
\* local_rib is, read from origin to holder, a walk along edges of the graph
\* that is valley-free: zero or more customer-to-provider hops, at most one
\* peer hop, then zero or more provider-to-customer hops, with no ASN repeated
C38_ValleyFree ==
    AllBGP /\ EmptyPathSeeds =>
        \A x \in DOMAIN policy_store : \A p \in DOMAIN policy_store[x].local_rib :
            LET as_path == policy_store[x].local_rib[p].as_path
            IN /\ as_path # <<>>
               /\ as_path[1] = x
               /\ ValleyFree(as_path)

\* a local RIB holds a path that climbs two hops and descends one
C38_Witness ==
    /\ AllBGP /\ EmptyPathSeeds
    /\ \E x \in DOMAIN policy_store : \E p \in DOMAIN policy_store[x].local_rib :
          LET as_path == policy_store[x].local_rib[p].as_path
          IN /\ Len(as_path) = 4
             /\ HopKind(as_path, 3) = Customers
             /\ HopKind(as_path, 2) = Customers
             /\ HopKind(as_path, 1) = Providers

-----------------------------------------------------------------------------
(* Termination of the ranking *)

\* the lists of propagation_ranks that hold the ASN
ListsWith(propagation_ranks, a) ==
    {k \in 1..Len(propagation_ranks) :
        \E i \in 1..Len(propagation_ranks[k]) : propagation_ranks[k][i] = a}

\* the ASN stands once in the list
OnceIn(list, a) == Cardinality({i \in 1..Len(list) : list[i] = a}) = 1

\* C39: assign_as_propagation_rank terminates on every graph that
\* check_for_cycles accepts (including a graph in which an AS lists a provider
\* ASN that is not in the graph), and afterwards every ASN of the graph
\* appears in exactly one list of propagation_ranks, at the index equal to its
\* propagation_rank.  Here for ASGraph::assign_as_propagation_rank of
\* src/as_graph.rs, called after check_for_cycles returned Ok.
C39_RankTerminates ==
    probe.op = "assign_as_propagation_rank" =>
        /\ probe.terminates
        /\ \A a \in DOMAIN as_graph.as_dict :
              /\ as_graph.as_dict[a].propagation_rank # None
              /\ ListsWith(as_graph.propagation_ranks, a)
                    = {as_graph.as_dict[a].propagation_rank[1] + 1}
              /\ OnceIn(as_graph.propagation_ranks[as_graph.as_dict[a].propagation_rank[1] + 1], a)

\* when every provider listed is an AS of the graph, the ranking ends and
\* every ASN stands once, in the list of its rank
C39_KnownProvidersRanked ==
    /\ probe.op = "assign_as_propagation_rank"
    /\ \A a \in DOMAIN as_graph.as_dict :
          Range(as_graph.as_dict[a].providers) \subseteq DOMAIN as_graph.as_dict
    => /\ probe.terminates
       /\ \A a \in DOMAIN as_graph.as_dict :
             /\ as_graph.as_dict[a].propagation_rank # None
             /\ ListsWith(as_graph.propagation_ranks, a)
                   = {as_graph.as_dict[a].propagation_rank[1] + 1}
             /\ OnceIn(as_graph.propagation_ranks[as_graph.as_dict[a].propagation_rank[1] + 1], a)

\* the built graph of as_graphs/as_graph/as_graph.rs that its check_for_cycles
\* accepts: every ASN stands in exactly one list after the ranking
C39_BuiltGraphRanked ==
    probe.op = "build" /\ probe.result = "Ok" =>
        \A a \in as_dict_keys(probe.graph) :
            Cardinality(ListsWith(assign_as_propagation_rank(probe.graph).propagation_ranks, a)) = 1

-----------------------------------------------------------------------------
(* policy_extensions/bgpsec.rs: a route with an intact secure path handed    *)
(* from one BGPSec AS to the next with Announcement::copy_and_process          *)

\* BGPSecPolicy::compare_announcements
BGPSecPolicy_compare_announcements(ann1, ann2, rel1, rel2) ==
    LET ann1_valid == ann1.bgpsec_as_path # None /\ ann1.bgpsec_as_path = Some(ann1.as_path)
        ann2_valid == ann2.bgpsec_as_path # None /\ ann2.bgpsec_as_path = Some(ann2.as_path)
        pref1 == get_gao_rexford_preference(rel1)
        pref2 == get_gao_rexford_preference(rel2)
    IN IF ann1_valid /\ ~ann2_valid THEN "Less"
       ELSE IF ~ann1_valid /\ ann2_valid THEN "Greater"
       ELSE IF Cmp(pref2, pref1) # "Equal" THEN Cmp(pref2, pref1)
       ELSE IF Cmp(Len(ann1.as_path), Len(ann2.as_path)) # "Equal"
            THEN Cmp(Len(ann1.as_path), Len(ann2.as_path))
            ELSE Cmp(ann1.next_hop_asn, ann2.next_hop_asn)

\* the routes an AS holds with an intact secure path: bgpsec_as_path is the
\* AS path, signed for the holder
IntactRoutes(holder) ==
    {[Announcement_new_with_path(P24, as_path, as_path[1], recv_relationship)
         EXCEPT !.bgpsec_as_path = Some(as_path), !.bgpsec_next_asn = Some(holder)] :
        as_path \in PathInputs \ {<<>>}, recv_relationship \in {Customers, Origin}}

\* a customer's route of one hop without a secure path
PlainRoute == Announcement_new_with_path(P24, <<VICTIM>>, VICTIM, Customers)

\* ann.copy_and_process(x, recv_relationship) at the sender x, then at the
\* receiver y validate_announcement of the copy and compare_announcements of
\* the copy with a route that the default order prefers
BgpsecHop ==
    /\ probe = NoProbe
    /\ \E x \in {1, 2, 3}, y \in {1, 2, 3}, recv_relationship \in Range(AllRels) :
         \E held \in IntactRoutes(x) :
            LET sent == copy_and_process(held, x, recv_relationship)
            IN probe' = [op |-> "bgpsec_hop", x |-> x, y |-> y, held |-> held,
                         recv_relationship |-> recv_relationship, sent |-> sent,
                         accepted |-> BGPSecPolicy_validate_announcement(
                                          sent, recv_relationship, y),
                         compare |-> BGPSecPolicy_compare_announcements(
                                          sent, PlainRoute, recv_relationship, Customers)]
    /\ ProbeOnly

NextHop == BgpsecHop

SpecHop == InitPolicy /\ [][NextHop]_vars

\* the hop of the claim: from x to another AS y that is not on the path
HopBetweenAdopters ==
    /\ probe.op = "bgpsec_hop"
    /\ probe.x # probe.y
    /\ ~Contains(probe.held.as_path, probe.y)
    /\ ~Contains(probe.held.as_path, probe.x)

\* C40: an intact BGPSec route survives a hop between two BGPSec adopters: if
\* AS X holds an announcement whose bgpsec_as_path equals its as_path and
\* forwards it with copy_and_process to a neighbor Y that runs BGPSec, then
\* Y's validate accepts it and Y's compare still treats it as BGPSec-valid
C40_BgpsecHop ==
    HopBetweenAdopters =>
        /\ probe.accepted
        /\ probe.compare = "Less"

\* the copy keeps the two paths equal, so compare prefers it to a plain route;
\* validate rejects it, because the copy is signed for its sender
C40_SignedForSender ==
    HopBetweenAdopters =>
        /\ probe.sent.bgpsec_as_path = Some(probe.sent.as_path)
        /\ probe.compare = "Less"
        /\ probe.sent.bgpsec_next_asn = Some(probe.x)
        /\ ~probe.accepted

====
